---- MODULE Spec2Model ----
(***************************************************************************)
(* A model of the makerspace back-office application: the billing          *)
(* utilities (invoices, the bill_tabs command, the payout report) and the  *)
(* lease activity logic.                                                   *)
(*                                                                         *)
(* A nullable column is a sequence: << >> is NULL, <<v>> holds v.          *)
(***************************************************************************)
EXTENDS Integers, Sequences, FiniteSets, TLC

VARIABLES
    orders,          \* billing.Order table: sequence of rows, pk = index
    invoices,        \* billing.Invoice table: sequence of rows, pk = index
    payouts,         \* billing.Payout table: sequence of rows, pk = index
    lastReport,      \* << >>, or <<[period_start, period_end, created]>>: the last process_payout_report call
    apiKey,          \* settings: TRUE when get_stripe_key() returns a key
    now,             \* timezone.now()
    pc,              \* bill_tabs: where the command stands ("idle" between invocations)
    users_with_tabs, \* bill_tabs: the rows the loop iterates, fetched when the loop starts
    idx,             \* bill_tabs: position of the loop in users_with_tabs
    tab_orders,      \* bill_tabs: the result cache of the tab_orders queryset (NULL until evaluated)
    invoice,         \* bill_tabs: what create_invoice_for_user returned (NULL for None)
    billed_count,    \* bill_tabs: billed_count
    log,             \* what the last create_invoice_for_user call of the command logged
    stdout,          \* stdout[r]: the messages the r-th invocation of bill_tabs wrote
    runLog,          \* runLog[r]: what the r-th invocation found when it started, and the invoices it created
    stripeItems,     \* Stripe: the invoice items created, in order
    stripeInvoices,  \* Stripe: the invoices created
    leases,          \* membership.Lease table: sequence of rows
    today,           \* timezone.now().date()
    activeEval,      \* <<[lease, today, value]>> when the last read of the leases was Lease.is_active
    activeQuery,     \* <<[as_of, today, result]>> when it was Lease.objects.active(as_of)
    ADMIN_DOMAINS,   \* settings.ADMIN_DOMAINS: a list of strings
    accounts,        \* the User table: sequence of rows, pk = index
    lastLogin,       \* << >>, or <<[hook, pk, before, saved]>>: the last social-login hook that ran
    subscriptions,   \* the PushSubscription table: sequence of rows in order of creation
    lastResponse,    \* << >>, or <<[view, user, valid, applied, status, body]>>: the last answer of a push view
    settingRows,     \* the Setting table: settingRows[key] is << >> (no row) or <<value>>
    cache,           \* django.core.cache: cache[key] is << >> (no entry) or <<value>> for "setting.<key>"
    lastGet,         \* << >>, or <<[key, default, result]>>: the last Setting.get since the last write
    csvRows,         \* generate_fixture: the parsed rows of the CSV
    generated,       \* << >>, or <<[acc, fixture]>>: the accumulator and the fixture generate_fixture built
    installed,       \* apps.get_models(): for each model the name of its app and _meta.abstract
    registry,        \* admin.site._registry: for each model << >> or <<its admin class>>
    lastRegisterAll, \* << >>, or <<[registered_count, skipped_count, before]>>: the last register_all_models() since the registry changed otherwise
    rentables,       \* the Rentable table: rentables[pk] is the row
    rentals,         \* the Rental table: sequence of rows, pk = index
    toolsNow,        \* timezone.now() of the tools app, in seconds
    lastCost,        \* << >>, or <<[rental, cost]>>: the last calculate_rental_cost since the last change
    shareOrder,      \* a paid order with its revenue split: [amount, splits]
    shareResult,     \* << >>, or <<the items of the payouts dict after the splits of the order were added>>
    getCalls,        \* the Setting.get calls in progress: getCalls[g] is [pc, key, default, value, fresh]
    setCall,         \* << >>, or <<[key, value]>>: the Setting.set between its update_or_create and its cache.delete
    setDone          \* setDone[key]: a Setting.set of the key has completed

dbVars == <<orders, invoices, payouts>>
payoutVars == <<lastReport>>
billVars == <<apiKey, now, pc, users_with_tabs, idx, tab_orders, invoice, billed_count,
              log, stdout, runLog, stripeItems, stripeInvoices>>
cmdVars == <<pc, users_with_tabs, idx, tab_orders, invoice, billed_count, stdout, runLog>>
stripeVars == <<stripeItems, stripeInvoices>>
leaseVars == <<leases, today, activeEval, activeQuery>>
adapterVars == <<ADMIN_DOMAINS, accounts, lastLogin>>
\* The back-office part (billing, payouts, leases) and the site part.
officeVars == <<dbVars, payoutVars, billVars, leaseVars>>
pushVars == <<subscriptions, lastResponse>>
settingVars == <<settingRows, cache, lastGet>>
fixtureVars == <<csvRows, generated>>
adminVars == <<installed, registry, lastRegisterAll>>
toolsVars == <<rentables, rentals, toolsNow, lastCost>>
sharesVars == <<shareOrder, shareResult>>
raceVars == <<getCalls, setCall, setDone>>
siteVars == <<adapterVars, pushVars, settingVars, fixtureVars, adminVars, toolsVars, sharesVars, raceVars>>
\* What the actions of one part of the site leave alone.
notAdapterVars == <<officeVars, pushVars, settingVars, fixtureVars, adminVars, toolsVars, sharesVars, raceVars>>
notPushVars == <<officeVars, adapterVars, settingVars, fixtureVars, adminVars, toolsVars, sharesVars, raceVars>>
notSettingVars == <<officeVars, adapterVars, pushVars, fixtureVars, adminVars, toolsVars, sharesVars, raceVars>>
notFixtureVars == <<officeVars, adapterVars, pushVars, settingVars, adminVars, toolsVars, sharesVars, raceVars>>
notAdminVars == <<officeVars, adapterVars, pushVars, settingVars, fixtureVars, toolsVars, sharesVars, raceVars>>
notToolsVars == <<officeVars, adapterVars, pushVars, settingVars, fixtureVars, adminVars, sharesVars, raceVars>>
notSharesVars == <<officeVars, adapterVars, pushVars, settingVars, fixtureVars, adminVars, toolsVars, raceVars>>
notRaceVars == <<officeVars, adapterVars, pushVars, settingVars, fixtureVars, adminVars, toolsVars, sharesVars>>
vars == <<orders, invoices, payouts, lastReport, apiKey, now, pc, users_with_tabs, idx,
          tab_orders, invoice, billed_count, log, stdout, runLog, stripeItems, stripeInvoices,
          leases, today, activeEval, activeQuery, ADMIN_DOMAINS, accounts, lastLogin,
          subscriptions, lastResponse, settingRows, cache, lastGet,
          csvRows, generated, installed, registry, lastRegisterAll,
          rentables, rentals, toolsNow, lastCost,
          shareOrder, shareResult,
          getCalls, setCall, setDone>>

----------------------------------------------------------------------------
(* Bounds of the model. *)

NumOrders == 2       \* rows of the Order table in the payout specification
MaxDate == 2         \* issue dates and report periods range over 1..MaxDate
NumUsers == 2        \* users who can hold a tab
MaxOrders == 2       \* rows of the Order table in the billing specification
MaxRuns == 2         \* invocations of bill_tabs in one behaviour
MaxClock == 2        \* the clock runs over 1..MaxClock
NumLeases == 2       \* rows of the Lease table
MaxDay == 3          \* lease dates and today range over 1..MaxDay
NumAccounts == 1     \* rows of the User table before the first login
NumSubscribers == 2  \* users who send push requests
NumEndpoints == 2    \* push endpoints
NumKeys == 2         \* setting keys
NumValues == 2       \* setting values other than None
MaxRows == 2         \* rows of the CSV
NumModels == 2       \* models apps.get_models() returns
NumRentables == 2    \* rows of the Rentable table
MaxRentals == 2      \* rows of the Rental table
MaxPeriods == 1      \* the clock of the tools app reaches MaxPeriods hours, days and weeks
MaxPayouts == 4      \* rows of the Payout table when the report is run again
MaxAmount == 7       \* the amount of the order whose shares are computed
MaxSplits == 3       \* entries of the splits list of that order

Amounts == {0 - 5, 7}
Dates == 1 .. MaxDate
Days == 1 .. MaxDay
MaxAccounts == NumAccounts + 1
Subscribers == 1 .. NumSubscribers
Endpoints == 1 .. NumEndpoints
SettingKeys == 1 .. NumKeys

----------------------------------------------------------------------------
(* Nullable values and sequence helpers. *)

Null == << >>
Some(v) == <<v>>
IsNull(x) == x = << >>
Val(x) == x[1]

RECURSIVE SumSeq(_)
SumSeq(s) == IF s = << >> THEN 0 ELSE Head(s) + SumSeq(Tail(s))

----------------------------------------------------------------------------
(* billing/models.py *)

ON_TAB == "on_tab"
BILLED == "billed"
PAID == "paid"
FAILED == "failed"
OrderStatus == {ON_TAB, BILLED, PAID, FAILED}

\* Order.Meta.ordering = ["-issued_at"]: the primary keys in S, latest issued
\* first (ties by pk).
RECURSIVE Ordered(_)
Ordered(S) ==
    IF S = {} THEN << >>
    ELSE LET first == CHOOSE i \in S : \A j \in S :
                        \/ orders[i].issued_at > orders[j].issued_at
                        \/ orders[i].issued_at = orders[j].issued_at /\ i <= j
         IN  <<first>> \o Ordered(S \ {first})

PENDING == "pending"
DISTRIBUTED == "distributed"

PayeeType == {"user", "guild"}

(* The RevenueSplit table: pk -> splits, the JSON list of the row. Row 1 is *)
(* the "Guild Workshop 70/30" split of the seed data; row 2 names guild 1   *)
(* again and ends with an entry that leaves entity_type and entity_id out.  *)
RevenueSplits ==
    << << [entity_type |-> "guild", entity_id |-> 1, percentage |-> 70],
          [entity_type |-> "org", entity_id |-> 0, percentage |-> 30] >>,
       << [entity_type |-> "user", entity_id |-> 1, percentage |-> 60],
          [entity_type |-> "guild", entity_id |-> 1, percentage |-> 25],
          [percentage |-> 15] >> >>

SplitIds == 1 .. Len(RevenueSplits)

----------------------------------------------------------------------------
(* billing/stripe_utils.py: process_payout_report *)

\* dict.get(key, default) on a JSON object
Get(d, k, default) == IF k \in DOMAIN d THEN d[k] ELSE default

\* x / 100 rounded away from zero.
IntDiv100Up(x) == IF x >= 0 THEN (x + 99) \div 100 ELSE 0 - ((99 - x) \div 100)
\* int(x / 100): Python's int() truncates toward zero
IntDiv100(x) == IF x >= 0 THEN x \div 100 ELSE 0 - ((0 - x) \div 100)

\* The share rounded down: (order.amount * percentage) // 100.
ShareFloor(amount, percentage) == (amount * percentage) \div 100
\* amount = int(order.amount * percentage / 100)
Share(amount, percentage) == IntDiv100(amount * percentage)

\* The filter without its status condition.
MatchesIgnoringStatus(o, period_start, period_end) ==
    /\ o.issued_at >= period_start
    /\ o.issued_at <= period_end
    /\ ~IsNull(o.revenue_split)
\* Order.objects.filter(status=PAID, issued_at__date__gte=..., issued_at__date__lte=..., revenue_split__isnull=False)
Matches(o, period_start, period_end) ==
    /\ o.status = PAID
    /\ o.issued_at >= period_start
    /\ o.issued_at <= period_end
    /\ ~IsNull(o.revenue_split)

\* payouts[key] = payouts.get(key, 0) + amount, on an insertion-ordered dict
\* held as a sequence of [key, amount] items
DictAdd(d, key, amount) ==
    IF \E i \in 1 .. Len(d) : d[i].key = key
    THEN [i \in 1 .. Len(d) |->
            IF d[i].key = key THEN [key |-> key, amount |-> d[i].amount + amount] ELSE d[i]]
    ELSE Append(d, [key |-> key, amount |-> amount])

\* for split in order.revenue_split.splits: ...
RECURSIVE AddSplits(_, _, _)
AddSplits(d, amount, splits) ==
    IF splits = << >> THEN d
    ELSE LET split == Head(splits)
             entity_type == Get(split, "entity_type", "org")
             entity_id == Get(split, "entity_id", 0)
             percentage == Get(split, "percentage", 0)
         IN  AddSplits(DictAdd(d, <<entity_type, entity_id>>, Share(amount, percentage)),
                       amount, Tail(splits))

\* The loop over the splits of one order, on an empty payouts dict.
AddSplitsOfOrder ==
    /\ IsNull(shareResult)
    /\ shareResult' = Some(AddSplits(<< >>, shareOrder.amount, shareOrder.splits))
    /\ UNCHANGED <<shareOrder, notSharesVars>>

\* for order in orders: ..., over the primary keys pks of the queryset
RECURSIVE AddOrders(_, _)
AddOrders(d, pks) ==
    IF pks = << >> THEN d
    ELSE LET order == orders[Head(pks)]
         IN  IF IsNull(order.revenue_split)
             THEN AddOrders(d, Tail(pks))
             ELSE AddOrders(AddSplits(d, order.amount, RevenueSplits[Val(order.revenue_split)]),
                            Tail(pks))

\* The row with period_start and period_end exchanged.
NewPayoutPeriodSwapped(pk, item, period_start, period_end) ==
    [id |-> pk, payee_type |-> item.key[1], payee_id |-> item.key[2],
     amount |-> item.amount, status |-> PENDING,
     period_start |-> period_end, period_end |-> period_start]
\* Payout.objects.create(payee_type=..., payee_id=..., amount=..., status=PENDING, period_start=..., period_end=...)
NewPayout(pk, item, period_start, period_end) ==
    [id |-> pk, payee_type |-> item.key[1], payee_id |-> item.key[2],
     amount |-> item.amount, status |-> PENDING,
     period_start |-> period_start, period_end |-> period_end]

\* The rows one call creates, in the order of the dict's items.
CreatedPayouts(period_start, period_end) ==
    LET matching == {pk \in 1 .. Len(orders) : Matches(orders[pk], period_start, period_end)}
        d == AddOrders(<< >>, Ordered(matching))
    IN  [i \in 1 .. Len(d) |-> NewPayout(Len(payouts) + i, d[i], period_start, period_end)]

process_payout_report(period_start, period_end) ==
    /\ IsNull(lastReport)
    /\ LET created == CreatedPayouts(period_start, period_end)
       IN  /\ payouts' = payouts \o created
           /\ lastReport' = Some([period_start |-> period_start,
                                  period_end |-> period_end,
                                  created |-> created])
    /\ UNCHANGED <<orders, invoices, billVars, leaseVars, siteVars>>

\* A further call of process_payout_report, while the Payout table has room.
process_payout_reportAgain(period_start, period_end) ==
    /\ ~IsNull(lastReport)
    /\ LET created == CreatedPayouts(period_start, period_end)
       IN  /\ Len(payouts) + Len(created) <= MaxPayouts
           /\ payouts' = payouts \o created
           /\ lastReport' = Some([period_start |-> period_start,
                                  period_end |-> period_end,
                                  created |-> created])
    /\ UNCHANGED <<orders, invoices, billVars, leaseVars, siteVars>>

----------------------------------------------------------------------------
(* billing/stripe_utils.py: create_invoice_for_user, _create_local_invoice *)

Users == 1 .. NumUsers

\* What a user can put on the tab.
Catalogue ==
    {[description |-> "Monthly dues", amount |-> 7],
     [description |-> "Day pass", amount |-> 5]}

\* The primary keys of the rows of Order.objects.filter(user=user, status=ON_TAB).
OnTab(user) == {pk \in 1 .. Len(orders) : orders[pk].user = user /\ orders[pk].status = ON_TAB}

\* total_amount = sum(o.amount for o in orders), over the evaluated queryset
TotalAmount(rows) == SumSeq([i \in 1 .. Len(rows) |-> orders[rows[i]].amount])

\* line_items = [{"description": o.description, "amount": o.amount} for o in orders]
LineItems(rows) ==
    [i \in 1 .. Len(rows) |->
        [description |-> orders[rows[i]].description, amount |-> orders[rows[i]].amount]]

\* The row left with the default status of the Invoice model.
_create_local_invoiceDraft(user, rows) ==
    [id |-> Len(invoices) + 1, user |-> user, stripe_invoice_id |-> Null,
     amount_due |-> TotalAmount(rows), status |-> "draft",
     line_items |-> LineItems(rows)]
\* _create_local_invoice: the row Invoice.objects.create stores. A blank
\* stripe_invoice_id is NULL here.
_create_local_invoice(user, rows) ==
    [id |-> Len(invoices) + 1, user |-> user, stripe_invoice_id |-> Null,
     amount_due |-> TotalAmount(rows), status |-> "open",
     line_items |-> LineItems(rows)]

\* The Stripe calls of one create_invoice_for_user, in order: the customer
\* lookup, one InvoiceItem.create per order, Invoice.create, finalize_invoice.
StripeCalls(rows) == Len(rows) + 3

\* Stripe's invoice items after the first ok calls succeeded.
StripeItemsAfter(user, rows, ok) ==
    LET sent == IF ok - 1 > Len(rows) THEN Len(rows) ELSE IF ok < 1 THEN 0 ELSE ok - 1
    IN  stripeItems \o [i \in 1 .. sent |->
                          [customer |-> user, order |-> rows[i],
                           amount |-> orders[rows[i]].amount,
                           description |-> orders[rows[i]].description]]

\* Stripe's invoices after the first ok calls succeeded.
StripeInvoicesAfter(user, rows, ok) ==
    IF ok >= Len(rows) + 2
    THEN Append(stripeInvoices, [id |-> Len(stripeInvoices) + 1, customer |-> user,
                                 finalized |-> ok = StripeCalls(rows)])
    ELSE stripeInvoices

\* The rows when a failed Stripe call makes the function fall back to the
\* local invoice.
StripeInvoiceRowsWithFallback(user, rows, ok) ==
    IF ok = StripeCalls(rows)
    THEN << [id |-> Len(invoices) + 1, user |-> user,
             stripe_invoice_id |-> Some(Len(stripeInvoices) + 1),
             amount_due |-> TotalAmount(rows), status |-> "open",
             line_items |-> LineItems(rows)] >>
    ELSE << _create_local_invoice(user, rows) >>
\* The Invoice rows the Stripe branch of create_invoice_for_user stores when
\* the first ok Stripe calls succeed: one row after the last call, none when a
\* call raised StripeError.
StripeInvoiceRows(user, rows, ok) ==
    IF ok = StripeCalls(rows)
    THEN << [id |-> Len(invoices) + 1, user |-> user,
             stripe_invoice_id |-> Some(Len(stripeInvoices) + 1),
             amount_due |-> TotalAmount(rows), status |-> "open",
             line_items |-> LineItems(rows)] >>
    ELSE << >>

NO_KEY_WARNING == "No Stripe API key configured - creating local invoice only"
STRIPE_ERROR == "Stripe error creating invoice for user"

----------------------------------------------------------------------------
(* billing/management/commands/bill_tabs.py: Command.handle *)

Message(msg, user, count, total) == [msg |-> msg, user |-> user, count |-> count, total |-> total]

RECURSIVE Ascending(_)
\* The members of a set of primary keys in ascending order.
Ascending(S) ==
    IF S = {} THEN << >>
    ELSE LET least == CHOOSE i \in S : \A j \in S : i <= j
         IN  <<least>> \o Ascending(S \ {least})

\* Write a message to the stdout of the running invocation.
Write(m) == [stdout EXCEPT ![Len(stdout)] = Append(@, m)]

\* User.objects.filter(orders__status=ON_TAB).distinct()
UsersWithTabs == {u \in Users : OnTab(u) # {}}

\* The user of the current iteration.
CurrentUser == users_with_tabs[idx]

\* handle() starts: users_with_tabs.exists(), and the early return.
StartRun ==
    /\ pc = "idle"
    /\ Len(runLog) < MaxRuns
    /\ runLog' = Append(runLog, [started_at |-> now,
                                 on_tab_at_start |-> {pk \in 1 .. Len(orders) : orders[pk].status = ON_TAB},
                                 orders_at_start |-> Len(orders),
                                 invoices |-> << >>])
    /\ IF UsersWithTabs = {}
       THEN /\ stdout' = Append(stdout, <<Message("No outstanding tabs to bill", 0, 0, 0)>>)
            /\ pc' = "idle"
       ELSE /\ stdout' = Append(stdout, << >>)
            /\ pc' = "fetch"
    /\ billed_count' = 0
    /\ UNCHANGED <<users_with_tabs, idx, tab_orders, invoice, log>>
    /\ UNCHANGED <<dbVars, apiKey, now, stripeVars, payoutVars, leaseVars, siteVars>>

\* for user in users_with_tabs: the queryset is evaluated when the loop starts.
FetchUsers ==
    /\ pc = "fetch"
    /\ users_with_tabs' = Ascending(UsersWithTabs)
    /\ idx' = 1
    /\ pc' = "loop"
    /\ UNCHANGED <<tab_orders, invoice, billed_count, stdout, runLog, log>>
    /\ UNCHANGED <<dbVars, apiKey, now, stripeVars, payoutVars, leaseVars, siteVars>>

\* The check left out.
TabOrdersExistAlways(user) == TRUE
\* tab_orders.exists()
TabOrdersExist(user) == OnTab(user) # {}

\* tab_orders = Order.objects.filter(...); if not tab_orders.exists(): continue
CheckTabOrders ==
    /\ pc = "loop"
    /\ idx <= Len(users_with_tabs)
    /\ tab_orders' = Null
    /\ IF TabOrdersExist(CurrentUser)
       THEN pc' = "invoice" /\ idx' = idx
       ELSE pc' = "loop" /\ idx' = idx + 1
    /\ UNCHANGED <<users_with_tabs, invoice, billed_count, stdout, runLog, log>>
    /\ UNCHANGED <<dbVars, apiKey, now, stripeVars, payoutVars, leaseVars, siteVars>>

\* create_invoice_for_user without a key: the warning and _create_local_invoice.
CreateLocalInvoice ==
    /\ pc = "invoice"
    /\ ~apiKey
    /\ LET rows == Ordered(OnTab(CurrentUser))
           row == _create_local_invoice(CurrentUser, rows)
       IN  /\ tab_orders' = Some(rows)
           /\ invoices' = Append(invoices, row)
           /\ invoice' = Some(row.id)
           /\ runLog' = [runLog EXCEPT ![Len(runLog)].invoices = Append(@, row.id)]
    /\ log' = <<NO_KEY_WARNING>>
    /\ pc' = "result"
    /\ UNCHANGED <<users_with_tabs, idx, billed_count, stdout>>
    /\ UNCHANGED <<orders, payouts, apiKey, now, stripeVars, payoutVars, leaseVars, siteVars>>

\* create_invoice_for_user with a key: the first ok Stripe calls succeed, the
\* next one, if any, raises StripeError.
CreateStripeInvoice(ok) ==
    /\ pc = "invoice"
    /\ apiKey
    /\ LET rows == Ordered(OnTab(CurrentUser))
           new == StripeInvoiceRows(CurrentUser, rows, ok)
       IN  /\ ok \in 0 .. StripeCalls(rows)
           /\ tab_orders' = IF ok = 0 THEN Null ELSE Some(rows)
           /\ stripeItems' = StripeItemsAfter(CurrentUser, rows, ok)
           /\ stripeInvoices' = StripeInvoicesAfter(CurrentUser, rows, ok)
           /\ invoices' = invoices \o new
           /\ invoice' = IF new = << >> THEN Null ELSE Some(new[1].id)
           /\ runLog' = [runLog EXCEPT ![Len(runLog)].invoices =
                            @ \o [i \in 1 .. Len(new) |-> new[i].id]]
           /\ log' = IF ok = StripeCalls(rows) THEN << >> ELSE <<STRIPE_ERROR>>
    /\ pc' = "result"
    /\ UNCHANGED <<users_with_tabs, idx, billed_count, stdout>>
    /\ UNCHANGED <<orders, payouts, apiKey, now, payoutVars, leaseVars, siteVars>>

\* The update without status=BILLED.
UpdateTabOrdersKeepingStatus(user) ==
    [pk \in 1 .. Len(orders) |->
        IF pk \in OnTab(user)
        THEN [orders[pk] EXCEPT !.billed_at = Some(now)]
        ELSE orders[pk]]
\* The update without billed_at.
UpdateTabOrdersWithoutTimestamp(user) ==
    [pk \in 1 .. Len(orders) |->
        IF pk \in OnTab(user)
        THEN [orders[pk] EXCEPT !.status = BILLED]
        ELSE orders[pk]]
\* tab_orders.update(status=BILLED, billed_at=timezone.now()): an UPDATE of
\* the rows that are ON_TAB when it runs.
UpdateTabOrders(user) ==
    [pk \in 1 .. Len(orders) |->
        IF pk \in OnTab(user)
        THEN [orders[pk] EXCEPT !.status = BILLED, !.billed_at = Some(now)]
        ELSE orders[pk]]

\* if invoice: count, update, billed_count += 1, the success message.
ApplyBilling ==
    /\ pc = "result"
    /\ ~IsNull(invoice)
    /\ orders' = UpdateTabOrders(CurrentUser)
    /\ billed_count' = billed_count + 1
    /\ stdout' = Write(Message("Billed", CurrentUser, Len(Val(tab_orders)),
                               invoices[Val(invoice)].amount_due))
    /\ idx' = idx + 1
    /\ pc' = "loop"
    /\ UNCHANGED <<users_with_tabs, tab_orders, invoice, runLog, log>>
    /\ UNCHANGED <<invoices, payouts, apiKey, now, stripeVars, payoutVars, leaseVars, siteVars>>

\* The else branch with the update of the if branch.
ReportFailureBilling ==
    /\ pc = "result"
    /\ IsNull(invoice)
    /\ orders' = UpdateTabOrders(CurrentUser)
    /\ stdout' = Write(Message("Failed to bill", CurrentUser, 0, 0))
    /\ idx' = idx + 1
    /\ pc' = "loop"
    /\ UNCHANGED <<users_with_tabs, tab_orders, invoice, billed_count, runLog, log>>
    /\ UNCHANGED <<invoices, payouts, apiKey, now, stripeVars, payoutVars, leaseVars, siteVars>>
\* else: the failure message.
ReportFailure ==
    /\ pc = "result"
    /\ IsNull(invoice)
    /\ stdout' = Write(Message("Failed to bill", CurrentUser, 0, 0))
    /\ idx' = idx + 1
    /\ pc' = "loop"
    /\ UNCHANGED <<users_with_tabs, tab_orders, invoice, billed_count, runLog, log>>
    /\ UNCHANGED <<dbVars, apiKey, now, stripeVars, payoutVars, leaseVars, siteVars>>

\* The loop is over: "Billed N users total".
FinishRun ==
    /\ pc = "loop"
    /\ idx > Len(users_with_tabs)
    /\ stdout' = Write(Message("Billed users total", 0, billed_count, 0))
    /\ pc' = "idle"
    /\ users_with_tabs' = << >>
    /\ idx' = 1
    /\ tab_orders' = Null
    /\ invoice' = Null
    /\ billed_count' = 0
    /\ log' = << >>
    /\ UNCHANGED runLog
    /\ UNCHANGED <<dbVars, apiKey, now, stripeVars, payoutVars, leaseVars, siteVars>>

----------------------------------------------------------------------------
(* What happens around the command. *)

\* A user puts an item on the tab: Order(status=ON_TAB, issued_at=timezone.now()).
PlaceOrder(user, item) ==
    /\ Len(orders) < MaxOrders
    /\ orders' = Append(orders, [user |-> user, description |-> item.description,
                                 amount |-> item.amount, status |-> ON_TAB,
                                 revenue_split |-> Null, issued_at |-> now,
                                 billed_at |-> Null])
    /\ UNCHANGED <<invoices, payouts, billVars, payoutVars, leaseVars, siteVars>>

\* Another invocation of bill_tabs bills the tab of a user (its loop body for
\* that user, with every Stripe call succeeding).
ExternalBill(user) ==
    /\ OnTab(user) # {}
    /\ LET rows == Ordered(OnTab(user))
       IN  IF apiKey
           THEN /\ invoices' = invoices \o StripeInvoiceRows(user, rows, StripeCalls(rows))
                /\ stripeItems' = StripeItemsAfter(user, rows, StripeCalls(rows))
                /\ stripeInvoices' = StripeInvoicesAfter(user, rows, StripeCalls(rows))
           ELSE /\ invoices' = Append(invoices, _create_local_invoice(user, rows))
                /\ UNCHANGED stripeVars
    /\ orders' = UpdateTabOrders(user)
    /\ UNCHANGED <<payouts, apiKey, now, cmdVars, log, payoutVars, leaseVars, siteVars>>

\* Time passes.
Tick ==
    /\ now < MaxClock
    /\ now' = now + 1
    /\ UNCHANGED <<dbVars, apiKey, cmdVars, log, stripeVars, payoutVars, leaseVars, siteVars>>

----------------------------------------------------------------------------
(* membership/models.py: Lease *)

\* is_active with the end date excluded.
is_activeEndExclusive(lease, now_date) ==
    IF IsNull(lease.start_date) \/ Val(lease.start_date) > now_date THEN FALSE
    ELSE IF ~IsNull(lease.end_date) /\ Val(lease.end_date) <= now_date THEN FALSE
    ELSE TRUE
\* Lease.is_active, with today = timezone.now().date()
is_active(lease, now_date) ==
    IF IsNull(lease.start_date) \/ Val(lease.start_date) > now_date THEN FALSE
    ELSE IF ~IsNull(lease.end_date) /\ Val(lease.end_date) < now_date THEN FALSE
    ELSE TRUE

\* A caller reads lease.is_active of the row with primary key pk.
ReadIsActive(pk) ==
    /\ activeEval' = Some([lease |-> pk, today |-> today, value |-> is_active(leases[pk], today)])
    /\ activeQuery' = Null
    /\ UNCHANGED <<leases, today, dbVars, payoutVars, billVars, siteVars>>

\* _active_lease_q with the reference date ignored in favour of today's date.
_active_lease_qIgnoringToday(lease, as_of, now_date) ==
    /\ Val(lease.start_date) <= now_date
    /\ (IsNull(lease.end_date) \/ Val(lease.end_date) >= now_date)
\* _active_lease_q(today=as_of) as a condition on a row: today defaults to
\* timezone.now().date(); start_date__lte & (end_date__isnull | end_date__gte)
_active_lease_q(lease, as_of, now_date) ==
    LET ref == IF IsNull(as_of) THEN now_date ELSE Val(as_of)
    IN  /\ Val(lease.start_date) <= ref
        /\ (IsNull(lease.end_date) \/ Val(lease.end_date) >= ref)

\* LeaseQuerySet.active: self.filter(_active_lease_q(today=as_of)), as the set
\* of primary keys of the rows it returns.
active(as_of) == {pk \in 1 .. Len(leases) : _active_lease_q(leases[pk], as_of, today)}

\* A caller evaluates Lease.objects.active(as_of); as_of is NULL when omitted.
ReadActive(as_of) ==
    /\ activeQuery' = Some([as_of |-> as_of, today |-> today, result |-> active(as_of)])
    /\ activeEval' = Null
    /\ UNCHANGED <<leases, today, dbVars, payoutVars, billVars, siteVars>>

\* Midnight passes.
NextDay ==
    /\ today < MaxDay
    /\ today' = today + 1
    /\ UNCHANGED <<leases, activeEval, activeQuery, dbVars, payoutVars, billVars, siteVars>>

----------------------------------------------------------------------------
(* Strings: a string is a sequence of one-character strings. *)

UpperLetters == <<"A","B","C","D","E","F","G","H","I","J","K","L","M",
                  "N","O","P","Q","R","S","T","U","V","W","X","Y","Z">>
LowerLetters == <<"a","b","c","d","e","f","g","h","i","j","k","l","m",
                  "n","o","p","q","r","s","t","u","v","w","x","y","z">>

\* str.lower() of one character
LowerChar(c) ==
    IF \E i \in 1 .. 26 : UpperLetters[i] = c
    THEN LowerLetters[CHOOSE i \in 1 .. 26 : UpperLetters[i] = c]
    ELSE c

\* str.lower()
lower(str) == [i \in 1 .. Len(str) |-> LowerChar(str[i])]

\* c in str
Contains(str, c) == \E i \in 1 .. Len(str) : str[i] = c

RECURSIVE strip(_)
\* str.strip(): leading and trailing blanks removed
strip(str) ==
    IF str = << >> THEN str
    ELSE IF Head(str) = " " THEN strip(Tail(str))
    ELSE IF str[Len(str)] = " " THEN strip(SubSeq(str, 1, Len(str) - 1))
    ELSE str

RECURSIVE str_split(_, _)
\* str.split(sep) for a one-character separator
str_split(str, sep) ==
    IF ~Contains(str, sep) THEN <<str>>
    ELSE LET i == CHOOSE k \in 1 .. Len(str) :
                      str[k] = sep /\ \A j \in 1 .. k - 1 : str[j] # sep
         IN  <<SubSeq(str, 1, i - 1)>> \o str_split(SubSeq(str, i + 1, Len(str)), sep)

\* str.rsplit(sep, 1)[1] of a string that contains sep: what follows the last sep
AfterLast(str, sep) ==
    LET i == CHOOSE k \in 1 .. Len(str) :
                 str[k] = sep /\ \A j \in k + 1 .. Len(str) : str[j] # sep
    IN  SubSeq(str, i + 1, Len(str))

----------------------------------------------------------------------------
(* plfog/settings.py: ADMIN_DOMAINS; newplos/adapters.py *)

\* One entry of the ADMIN_DOMAINS environment value is acceptable: not empty,
\* no "@", no space, and a dot.
ValidDomain(domain) ==
    /\ domain # << >>
    /\ ~Contains(domain, "@")
    /\ ~Contains(domain, " ")
    /\ Contains(domain, ".")

\* The value settings.py gives ADMIN_DOMAINS for the environment value raw:
\* NULL when it raises ValueError, else the list of stripped, lowercased entries.
ParseAdminDomains(raw) ==
    IF strip(raw) = << >> THEN Some(<< >>)
    ELSE LET entries == str_split(raw, ",")
             parsed == [i \in 1 .. Len(entries) |-> lower(strip(entries[i]))]
         IN  IF \A i \in 1 .. Len(parsed) : ValidDomain(parsed[i])
             THEN Some(parsed)
             ELSE Null

\* str.endswith(suffix)
EndsWith(str, suffix) ==
    /\ Len(suffix) <= Len(str)
    /\ SubSeq(str, Len(str) - Len(suffix) + 1, Len(str)) = suffix

\* _maybe_grant_admin with a listed domain matching its subdomains too.
_maybe_grant_adminSubdomains(user) ==
    LET email == user.email
        unchanged == [user |-> user, saved |-> FALSE]
    IN  IF ADMIN_DOMAINS = << >> THEN unchanged
        ELSE IF email = << >> \/ ~Contains(email, "@") THEN unchanged
        ELSE LET domain == lower(AfterLast(email, "@"))
             IN  IF \E i \in 1 .. Len(ADMIN_DOMAINS) : EndsWith(domain, ADMIN_DOMAINS[i])
                 THEN IF user.is_staff /\ user.is_superuser THEN unchanged
                      ELSE [user |-> [user EXCEPT !.is_staff = TRUE, !.is_superuser = TRUE],
                            saved |-> TRUE]
                 ELSE unchanged
\* _maybe_grant_admin with the domain compared as the email spells it.
_maybe_grant_adminCaseSensitive(user) ==
    LET email == user.email
        unchanged == [user |-> user, saved |-> FALSE]
    IN  IF ADMIN_DOMAINS = << >> THEN unchanged
        ELSE IF email = << >> \/ ~Contains(email, "@") THEN unchanged
        ELSE LET domain == AfterLast(email, "@")
             IN  IF \E i \in 1 .. Len(ADMIN_DOMAINS) : ADMIN_DOMAINS[i] = domain
                 THEN IF user.is_staff /\ user.is_superuser THEN unchanged
                      ELSE [user |-> [user EXCEPT !.is_staff = TRUE, !.is_superuser = TRUE],
                            saved |-> TRUE]
                 ELSE unchanged
\* _maybe_grant_admin(user): the user afterwards, and whether user.save ran.
_maybe_grant_admin(user) ==
    LET email == user.email
        unchanged == [user |-> user, saved |-> FALSE]
    IN  IF ADMIN_DOMAINS = << >> THEN unchanged
        ELSE IF email = << >> \/ ~Contains(email, "@") THEN unchanged
        ELSE LET domain == lower(AfterLast(email, "@"))
             IN  IF \E i \in 1 .. Len(ADMIN_DOMAINS) : ADMIN_DOMAINS[i] = domain
                 THEN IF user.is_staff /\ user.is_superuser THEN unchanged
                      ELSE [user |-> [user EXCEPT !.is_staff = TRUE, !.is_superuser = TRUE],
                            saved |-> TRUE]
                 ELSE unchanged

\* save_user: super().save_user creates the row of a new user, who is neither
\* staff nor superuser; then _maybe_grant_admin(user).
save_user(email) ==
    /\ Len(accounts) < MaxAccounts
    /\ LET user == [email |-> email, is_staff |-> FALSE, is_superuser |-> FALSE]
           granted == _maybe_grant_admin(user)
       IN  /\ accounts' = Append(accounts, granted.user)
           /\ lastLogin' = Some([hook |-> "save_user", pk |-> Some(Len(accounts) + 1),
                                 before |-> user, saved |-> granted.saved])
    /\ UNCHANGED <<ADMIN_DOMAINS, notAdapterVars>>

\* pre_social_login for a saved user: sociallogin.user is the row pk.
pre_social_login(pk) ==
    /\ LET granted == _maybe_grant_admin(accounts[pk])
       IN  /\ accounts' = [accounts EXCEPT ![pk] = granted.user]
           /\ lastLogin' = Some([hook |-> "pre_social_login", pk |-> Some(pk),
                                 before |-> accounts[pk], saved |-> granted.saved])
    /\ UNCHANGED <<ADMIN_DOMAINS, notAdapterVars>>

\* pre_social_login for a user who is not saved yet: user.pk is None.
pre_social_loginUnsaved(email) ==
    /\ lastLogin' = Some([hook |-> "pre_social_login", pk |-> Null,
                          before |-> [email |-> email, is_staff |-> FALSE, is_superuser |-> FALSE],
                          saved |-> FALSE])
    /\ UNCHANGED <<ADMIN_DOMAINS, accounts, notAdapterVars>>

----------------------------------------------------------------------------
(* core/views.py: subscribe, unsubscribe *)

\* The strings of a request are numbered, 0 being the empty string. The value
\* of a JSON key is <<string>>; a key that is absent reads as None, which is
\* NULL. not value: None and the empty string are falsy.
EmptyString == 0
Falsy(value) == value = Null \/ value = Some(EmptyString)

\* The answer of a view to a request of user: valid says whether the body was
\* JSON, applied holds, for a request that reached the table, its fields and
\* the number of rows its query found (NULL for a request that was refused).
JsonResponse(view, user, request, applied, status, body) ==
    Some([view |-> view, user |-> user, valid |-> request.valid, applied |-> applied,
          status |-> status, body |-> body])

\* The positions of the rows of PushSubscription.objects.filter(endpoint=endpoint).
WithEndpoint(endpoint) ==
    {i \in 1 .. Len(subscriptions) : subscriptions[i].endpoint = endpoint}

\* The table with the rows at the positions in S deleted.
RECURSIVE Without(_, _)
Without(rows, S) ==
    IF rows = << >> THEN << >>
    ELSE LET rest == Without(SubSeq(rows, 1, Len(rows) - 1), S)
         IN  IF Len(rows) \in S THEN rest ELSE Append(rest, rows[Len(rows)])

\* objects.create in place of update_or_create.
update_or_createAlwaysCreates(endpoint, user, p256dh, auth) ==
    Append(subscriptions, [user |-> user, endpoint |-> endpoint, p256dh |-> p256dh, auth |-> auth])
\* PushSubscription.objects.update_or_create(endpoint=endpoint, defaults={user,
\* p256dh, auth}) when at most one row has the endpoint: the table afterwards.
update_or_create(endpoint, user, p256dh, auth) ==
    IF WithEndpoint(endpoint) = {}
    THEN Append(subscriptions, [user |-> user, endpoint |-> endpoint, p256dh |-> p256dh, auth |-> auth])
    ELSE [i \in 1 .. Len(subscriptions) |->
            IF i \in WithEndpoint(endpoint)
            THEN [subscriptions[i] EXCEPT !.user = user, !.p256dh = p256dh, !.auth = auth]
            ELSE subscriptions[i]]

\* subscribe, for the logged-in user and a request body: request.valid says
\* whether json.loads accepts the body, request.data is the object it returns.
subscribe(user, request) ==
    /\ IF ~request.valid
       THEN \* json.loads raises, except Exception answers
            /\ lastResponse' = JsonResponse("subscribe", user, request, Null, 500,
                                            "Subscription failed. Please try again.")
            /\ UNCHANGED subscriptions
       ELSE LET endpoint == Get(request.data, "endpoint", Null)
                p256dh == Get(request.data, "p256dh", Null)
                auth == Get(request.data, "auth", Null)
            IN  IF Falsy(endpoint) \/ Falsy(p256dh) \/ Falsy(auth)
                THEN /\ lastResponse' = JsonResponse("subscribe", user, request, Null, 400,
                                                     "Missing required fields")
                     /\ UNCHANGED subscriptions
                ELSE IF Cardinality(WithEndpoint(Val(endpoint))) > 1
                THEN \* MultipleObjectsReturned, except Exception answers
                     /\ lastResponse' = JsonResponse("subscribe", user, request, Null, 500,
                                                     "Subscription failed. Please try again.")
                     /\ UNCHANGED subscriptions
                ELSE /\ subscriptions' = update_or_create(Val(endpoint), user, Val(p256dh), Val(auth))
                     /\ lastResponse' = JsonResponse("subscribe", user, request,
                                                     Some([data |-> request.data,
                                                           found |-> Cardinality(WithEndpoint(Val(endpoint)))]),
                                                     200, "success")
    /\ UNCHANGED notPushVars

\* filter(endpoint=endpoint) without the user.
OwnWithEndpointAnyUser(endpoint, user) == WithEndpoint(endpoint)
\* The positions of the rows of PushSubscription.objects.filter(endpoint=endpoint, user=request.user).
OwnWithEndpoint(endpoint, user) ==
    {i \in WithEndpoint(endpoint) : subscriptions[i].user = user}

\* unsubscribe, for the logged-in user and a request body.
unsubscribe(user, request) ==
    /\ IF ~request.valid
       THEN \* json.loads raises, except Exception answers
            /\ lastResponse' = JsonResponse("unsubscribe", user, request, Null, 500,
                                            "Unsubscription failed. Please try again.")
            /\ UNCHANGED subscriptions
       ELSE LET endpoint == Get(request.data, "endpoint", Null)
            IN  IF Falsy(endpoint)
                THEN /\ lastResponse' = JsonResponse("unsubscribe", user, request, Null, 400,
                                                     "Missing endpoint")
                     /\ UNCHANGED subscriptions
                ELSE /\ subscriptions' = Without(subscriptions, OwnWithEndpoint(Val(endpoint), user))
                     /\ lastResponse' = JsonResponse("unsubscribe", user, request,
                                                     Some([data |-> request.data,
                                                           found |-> Cardinality(OwnWithEndpoint(Val(endpoint), user))]),
                                                     200, "success")
    /\ UNCHANGED notPushVars

----------------------------------------------------------------------------
(* core/models.py: Setting; seed_data.py: the writes that bypass it *)

\* The values of a setting are numbered, 0 being None (JSON null).
None == 0
SettingValues == 0 .. NumValues

\* Setting.get(key, default), and what it returns.
Setting_get(key, default) ==
    LET cached == cache[key]
    IN  /\ IF ~IsNull(cached) /\ Val(cached) # None
           THEN \* cached is not None: return cached
                /\ lastGet' = Some([key |-> key, default |-> default, result |-> Val(cached)])
                /\ UNCHANGED cache
           ELSE IF ~IsNull(settingRows[key])
           THEN \* cache.set(cache_key, setting.value, 3600); return setting.value
                /\ cache' = [cache EXCEPT ![key] = settingRows[key]]
                /\ lastGet' = Some([key |-> key, default |-> default,
                                    result |-> Val(settingRows[key])])
           ELSE \* DoesNotExist: return default
                /\ lastGet' = Some([key |-> key, default |-> default, result |-> default])
                /\ UNCHANGED cache
        /\ UNCHANGED <<settingRows, notSettingVars>>

\* Setting.set(key, value): update_or_create, then cache.delete.
Setting_set(key, value) ==
    /\ settingRows' = [settingRows EXCEPT ![key] = Some(value)]
    /\ cache' = [cache EXCEPT ![key] = Null]
    /\ lastGet' = Null
    /\ UNCHANGED notSettingVars

\* Setting.objects.update_or_create(key=..., defaults={"value": ...}) as
\* seed_data does, or the save of the admin's change form.
UpdateSettingRow(key, value) ==
    /\ settingRows' = [settingRows EXCEPT ![key] = Some(value)]
    /\ lastGet' = Null
    /\ UNCHANGED <<cache, notSettingVars>>

\* Setting.objects.all().delete(), the flush of seed_data.
DeleteSettingRows ==
    /\ settingRows' = [key \in SettingKeys |-> Null]
    /\ lastGet' = Null
    /\ UNCHANGED <<cache, notSettingVars>>

\* The 3600 seconds of a cache entry run out.
ExpireCache(key) ==
    /\ ~IsNull(cache[key])
    /\ cache' = [cache EXCEPT ![key] = Null]
    /\ UNCHANGED <<settingRows, lastGet, notSettingVars>>

(* Setting.get and Setting.set statement by statement, for calls made by    *)
(* concurrent requests. getCalls[g].fresh records that the call started     *)
(* after a Setting.set of its key had completed and that no Setting.set of  *)
(* the key has started since.                                               *)

Getters == {"a", "b"}
notSettingRaceVars == <<officeVars, adapterVars, pushVars, fixtureVars, adminVars, toolsVars,
                       sharesVars>>
NoCall == [pc |-> "idle", key |-> 0, default |-> None, value |-> None, fresh |-> FALSE]

SetInFlight(key) == ~IsNull(setCall) /\ Val(setCall).key = key

\* cached = cache.get(cache_key); if cached is not None: return cached
Setting_get_cached(g, key, default) ==
    /\ getCalls[g].pc = "idle"
    /\ LET cached == cache[key]
           started == [pc |-> "miss", key |-> key, default |-> default, value |-> None,
                       fresh |-> setDone[key] /\ ~SetInFlight(key)]
       IN  IF ~IsNull(cached) /\ Val(cached) # None
           THEN getCalls' = [getCalls EXCEPT ![g] =
                                [started EXCEPT !.pc = "done", !.value = Val(cached)]]
           ELSE getCalls' = [getCalls EXCEPT ![g] = started]
    /\ UNCHANGED <<settingRows, cache, lastGet, setCall, setDone, notSettingRaceVars>>

\* setting = cls.objects.get(key=key); except cls.DoesNotExist: return default
Setting_get_row(g) ==
    /\ getCalls[g].pc = "miss"
    /\ LET row == settingRows[getCalls[g].key]
       IN  IF ~IsNull(row)
           THEN getCalls' = [getCalls EXCEPT ![g].pc = "read", ![g].value = Val(row)]
           ELSE getCalls' = [getCalls EXCEPT ![g].pc = "done", ![g].value = getCalls[g].default]
    /\ UNCHANGED <<settingRows, cache, lastGet, setCall, setDone, notSettingRaceVars>>

\* cache.set(cache_key, setting.value, 3600); return setting.value
Setting_get_cache_set(g) ==
    /\ getCalls[g].pc = "read"
    /\ cache' = [cache EXCEPT ![getCalls[g].key] = Some(getCalls[g].value)]
    /\ getCalls' = [getCalls EXCEPT ![g].pc = "done"]
    /\ UNCHANGED <<settingRows, lastGet, setCall, setDone, notSettingRaceVars>>

\* The caller has the value; the request may call Setting.get again.
Setting_get_return(g) ==
    /\ getCalls[g].pc = "done"
    /\ getCalls' = [getCalls EXCEPT ![g] = NoCall]
    /\ UNCHANGED <<settingRows, cache, lastGet, setCall, setDone, notSettingRaceVars>>

\* cls.objects.update_or_create(key=key, defaults={"value": value, ...})
Setting_set_update_or_create(key, value) ==
    /\ IsNull(setCall)
    /\ settingRows' = [settingRows EXCEPT ![key] = Some(value)]
    /\ setCall' = Some([key |-> key, value |-> value])
    /\ getCalls' = [g \in Getters |->
                       IF getCalls[g].key = key
                       THEN [getCalls[g] EXCEPT !.fresh = FALSE]
                       ELSE getCalls[g]]
    /\ UNCHANGED <<cache, lastGet, setDone, notSettingRaceVars>>

\* cache.delete(f"setting.{key}"), and Setting.set returns
Setting_set_cache_delete ==
    /\ ~IsNull(setCall)
    /\ cache' = [cache EXCEPT ![Val(setCall).key] = Null]
    /\ setDone' = [setDone EXCEPT ![Val(setCall).key] = TRUE]
    /\ setCall' = Null
    /\ UNCHANGED <<settingRows, lastGet, getCalls, notSettingRaceVars>>

\* The 3600 seconds of a cache entry run out while calls are in progress.
ExpireCacheDuringCalls(key) ==
    /\ ~IsNull(cache[key])
    /\ cache' = [cache EXCEPT ![key] = Null]
    /\ UNCHANGED <<settingRows, lastGet, raceVars, notSettingRaceVars>>

----------------------------------------------------------------------------
(* scripts/generate_fixture.py *)

STANDARD_PLAN_PK == 1

GUILD_SPACE_MAP ==
    [space_id \in {"A2b", "A22b", "A28", "A33", "A34", "A51", "A52", "B21", "B32a", "B32c",
                   "C28", "C54"} |->
        CASE space_id \in {"A2b", "A52"} -> "Glass Guild"
          [] space_id = "A22b" -> "Textiles Guild"
          [] space_id = "A28" -> "Tech Guild"
          [] space_id \in {"A33", "A34", "B21"} -> "Art Framing Guild"
          [] space_id = "A51" -> "Prison Outreach Guild"
          [] space_id \in {"B32a", "B32c"} -> "Gallery & Retail Guild"
          [] space_id = "C28" -> "Leatherwork Guild"
          [] space_id = "C54" -> "Ceramics Guild"]

PLM_SUB_UNITS == {"A2c", "A2d", "A2e", "A2f", "A2g"}

FACILITY_SPACES == {"A21b", "A24", "B5", "B9b", "B32b", "C29", "C29b", "C30", "C60"}

BATTERY_STORAGE_SPACE_ID == "C12"

MEMBER_NAME_ALIASES == [name \in {"Ochen", "Ha'Ne"} |-> IF name = "Ochen" THEN "Ochen Kaylan" ELSE "Ha'ne"]

\* clean_member_name, for names without an Airtable suffix or trailing dash
clean_member_name(raw) ==
    IF raw \in DOMAIN MEMBER_NAME_ALIASES THEN MEMBER_NAME_ALIASES[raw] ELSE raw

\* FixtureAccumulator(): guilds and members are the dicts name -> pk, held as
\* the names in the order of their pks.
FixtureAccumulator == [guilds |-> << >>, members |-> << >>, spaces |-> << >>, leases |-> << >>]

\* The position of a name in a list that holds it.
PkOf(names, name) == CHOOSE i \in 1 .. Len(names) : names[i] = name

\* The names after get_or_create_guild / get_or_create_member
GetOrCreate(names, name) ==
    IF \E i \in 1 .. Len(names) : names[i] = name THEN names ELSE Append(names, name)

\* _make_space_obj that marks every space occupied
_make_space_objOccupied(row, is_rentable, status, manual_price) ==
    [space_id |-> row.space_id, is_rentable |-> is_rentable,
     manual_price |-> manual_price, status |-> "occupied"]

\* _make_space_obj: the fields that depend on how the row was classified
_make_space_obj(row, is_rentable, status, manual_price) ==
    [space_id |-> row.space_id, is_rentable |-> is_rentable,
     manual_price |-> manual_price, status |-> status]

\* _make_lease: the lease dict, "space" holding the space id, for a row that
\* has no entry in LEASE_OVERRIDES
_make_lease(pk, content_type, object_id, space_id, base_price, monthly_rent) ==
    [pk |-> pk, content_type |-> content_type, object_id |-> object_id, space |-> space_id,
     lease_type |-> "month_to_month", base_price |-> base_price, monthly_rent |-> monthly_rent]

\* _handle_non_tenant_row: the space it appends, NULL when it returns False
NonTenantSpace(row) ==
    IF row.member_raw = "PLM Shelf" THEN Some(_make_space_obj(row, FALSE, "maintenance", Null))
    ELSE IF row.space_id = BATTERY_STORAGE_SPACE_ID
    THEN Some(_make_space_obj(row, FALSE, "maintenance", Null))
    ELSE IF row.space_id \in FACILITY_SPACES
    THEN Some(_make_space_obj(row, FALSE, "maintenance", row.full_price))
    ELSE IF row.space_id \in PLM_SUB_UNITS
    THEN Some(_make_space_obj(row, FALSE, "occupied", Null))
    ELSE IF row.label = "Open" /\ row.member_raw = "X"
    THEN Some(_make_space_obj(row, TRUE, "available", row.full_price))
    ELSE IF row.member_raw = "Open"
    THEN Some(_make_space_obj(row, TRUE, "available", row.full_price))
    ELSE IF clean_member_name(row.member_raw) = "PLM" /\ row.space_id \notin DOMAIN GUILD_SPACE_MAP
    THEN Some(_make_space_obj(row, FALSE, "maintenance", row.full_price))
    ELSE IF clean_member_name(row.member_raw) = "Battery storage"
    THEN Some(_make_space_obj(row, FALSE, "maintenance", Null))
    ELSE Null

_handle_non_tenant_row(row, acc) ==
    [acc EXCEPT !.spaces = Append(@, Val(NonTenantSpace(row)))]

\* _handle_guild_row, for a row of a space in GUILD_SPACE_MAP
_handle_guild_row(row, acc) ==
    LET guilds == GetOrCreate(acc.guilds, GUILD_SPACE_MAP[row.space_id])
        guild_pk == PkOf(guilds, GUILD_SPACE_MAP[row.space_id])
        space == _make_space_obj(row, TRUE, "occupied", row.full_price)
        base == IF IsNull(row.full_price) THEN 0 ELSE Val(row.full_price)
        rent == IF IsNull(row.actual_paid) THEN 0 ELSE Val(row.actual_paid)
    IN  IF ~IsNull(row.actual_paid) \/ ~IsNull(row.full_price)
        THEN [acc EXCEPT !.guilds = guilds,
                         !.spaces = Append(@, space),
                         !.leases = Append(@, _make_lease(Len(acc.leases) + 1, <<"membership", "guild">>,
                                                          guild_pk, row.space_id, base, rent))]
        ELSE [acc EXCEPT !.guilds = guilds, !.spaces = Append(@, space)]

\* _handle_tenant_row
_handle_tenant_row(row, acc) ==
    LET members == GetOrCreate(acc.members, clean_member_name(row.member_raw))
        member_pk == PkOf(members, clean_member_name(row.member_raw))
        space == _make_space_obj(row, TRUE, "occupied", row.full_price)
        base == IF IsNull(row.full_price) THEN 0 ELSE Val(row.full_price)
        monthly_rent == IF IsNull(row.actual_paid) THEN 0 ELSE Val(row.actual_paid)
    IN  [acc EXCEPT !.members = members,
                    !.spaces = Append(@, space),
                    !.leases = Append(@, _make_lease(Len(acc.leases) + 1, <<"membership", "member">>,
                                                     member_pk, row.space_id, base, monthly_rent))]

\* The body of the loop of generate_fixture for one row
HandleRow(row, acc) ==
    IF ~IsNull(NonTenantSpace(row)) THEN _handle_non_tenant_row(row, acc)
    ELSE IF row.space_id \in DOMAIN GUILD_SPACE_MAP THEN _handle_guild_row(row, acc)
    ELSE _handle_tenant_row(row, acc)

RECURSIVE HandleRows(_, _)
\* for raw_row in rows: ...
HandleRows(rows, acc) ==
    IF rows = << >> THEN acc ELSE HandleRows(Tail(rows), HandleRow(Head(rows), acc))

\* acc.space_id_to_pk after the loop over enumerate(acc.spaces, start=0)
space_id_to_pkFromZero(spaces) ==
    [space_id \in {spaces[i].space_id : i \in 1 .. Len(spaces)} |->
        (CHOOSE i \in 1 .. Len(spaces) :
            /\ spaces[i].space_id = space_id
            /\ \A j \in 1 .. Len(spaces) : spaces[j].space_id = space_id => j <= i) - 1]

\* acc.space_id_to_pk after the loop over enumerate(acc.spaces, start=1): a
\* later space with the same space id overwrites the entry of an earlier one.
space_id_to_pk(spaces) ==
    [space_id \in {spaces[i].space_id : i \in 1 .. Len(spaces)} |->
        CHOOSE i \in 1 .. Len(spaces) :
            /\ spaces[i].space_id = space_id
            /\ \A j \in 1 .. Len(spaces) : spaces[j].space_id = space_id => j <= i]

\* _build_fixture_json: plan, guilds, members, spaces, leases
_build_fixture_json(acc) ==
    LET plan_entries == <<[model |-> "membership.membershipplan", pk |-> STANDARD_PLAN_PK,
                   fields |-> [name |-> "Standard"]]>>
        guilds_entries == [guild_pk \in 1 .. Len(acc.guilds) |->
                      [model |-> "membership.guild", pk |-> guild_pk,
                       fields |-> [name |-> acc.guilds[guild_pk]]]]
        members_entries == [member_pk \in 1 .. Len(acc.members) |->
                       [model |-> "membership.member", pk |-> member_pk,
                        fields |-> [full_legal_name |-> acc.members[member_pk],
                                    membership_plan |-> STANDARD_PLAN_PK]]]
        spaces_entries == [i \in 1 .. Len(acc.spaces) |->
                      [model |-> "membership.space", pk |-> i,
                       fields |-> [space_id |-> acc.spaces[i].space_id,
                                   is_rentable |-> acc.spaces[i].is_rentable,
                                   manual_price |-> acc.spaces[i].manual_price,
                                   status |-> acc.spaces[i].status]]]
        leases_entries == [n \in 1 .. Len(acc.leases) |->
                      [model |-> "membership.lease", pk |-> acc.leases[n].pk,
                       fields |-> [content_type |-> acc.leases[n].content_type,
                                   object_id |-> acc.leases[n].object_id,
                                   space |-> space_id_to_pk(acc.spaces)[acc.leases[n].space],
                                   lease_type |-> acc.leases[n].lease_type,
                                   base_price |-> acc.leases[n].base_price,
                                   monthly_rent |-> acc.leases[n].monthly_rent]]]
    IN  plan_entries \o guilds_entries \o members_entries \o spaces_entries \o leases_entries

\* generate_fixture(csv_path), after read_csv_rows and parse_row
generate_fixture ==
    /\ IsNull(generated)
    /\ LET acc == HandleRows(csvRows, FixtureAccumulator)
       IN  generated' = Some([acc |-> acc, fixture |-> _build_fixture_json(acc)])
    /\ UNCHANGED <<csvRows, notFixtureVars>>

----------------------------------------------------------------------------
(* newplos/auto_admin.py *)

EXCLUDED_APPS ==
    {"django.contrib.admin", "django.contrib.auth", "django.contrib.contenttypes",
     "django.contrib.sessions", "django.contrib.messages", "django.contrib.staticfiles",
     "django.contrib.sites", "unfold", "unfold.contrib.forms", "allauth", "allauth.account",
     "allauth.socialaccount", "allauth.socialaccount.providers.google",
     "allauth.socialaccount.providers.github", "allauth.socialaccount.providers.discord",
     "django_extensions"}

\* The models of apps.get_models(), by their position.
Models == 1 .. Len(installed)

\* The class create_model_admin(model) returns
create_model_admin(model) == "AutoAdmin"

\* is_model_registered that finds no model registered
is_model_registeredNever(reg, model) == FALSE

\* is_model_registered(model), reg being admin.site._registry
is_model_registered(reg, model) == ~IsNull(reg[model])

RECURSIVE RegisterLoop(_, _, _, _)
\* The loop of register_all_models from the model at position `model` on:
\* the registry and the two counts when it ends.
RegisterLoop(model, reg, registered_count, skipped_count) ==
    IF model > Len(installed)
    THEN [registry |-> reg, registered_count |-> registered_count, skipped_count |-> skipped_count]
    ELSE IF \/ installed[model].app_name \in EXCLUDED_APPS
            \/ installed[model].abstract
            \/ is_model_registered(reg, model)
         THEN RegisterLoop(model + 1, reg, registered_count, skipped_count + 1)
         ELSE RegisterLoop(model + 1, [reg EXCEPT ![model] = Some(create_model_admin(model))],
                           registered_count + 1, skipped_count)

\* register_all_models()
register_all_models ==
    LET result == RegisterLoop(1, registry, 0, 0)
    IN  /\ registry' = result.registry
        /\ lastRegisterAll' = Some([registered_count |-> result.registered_count,
                                    skipped_count |-> result.skipped_count,
                                    before |-> registry])
        /\ UNCHANGED <<installed, notAdminVars>>

\* admin.site.register(model, admin_class) by an app's admin.py; it raises
\* AlreadyRegistered for a registered model.
site_register(model, admin_class) ==
    /\ IsNull(registry[model])
    /\ ~installed[model].abstract
    /\ registry' = [registry EXCEPT ![model] = Some(admin_class)]
    /\ lastRegisterAll' = Null
    /\ UNCHANGED <<installed, notAdminVars>>

\* unregister_hidden_models(): admin.site.unregister of the registered models
\* among `hidden`
unregister_hidden_models(hidden) ==
    /\ \E model \in hidden : ~IsNull(registry[model])
    /\ registry' = [model \in Models |-> IF model \in hidden THEN Null ELSE registry[model]]
    /\ lastRegisterAll' = Null
    /\ UNCHANGED <<installed, notAdminVars>>

----------------------------------------------------------------------------
(* tools/models.py: Rentable, Rental *)

RentalPeriod == {"hours", "days", "weeks"}
RentalStatus == {"active", "returned", "overdue"}

SecondsPerHour == 3600
HoursPerDay == 24
HoursPerWeek == 168

\* The rows of self.rentals.filter(status=status)
RentalsWithStatus(rentable, status) ==
    {i \in 1 .. Len(rentals) : rentals[i].rentable = rentable /\ rentals[i].status = status}

\* is_available that looks at the rentals of every rentable
is_availableAnyRentable(rentable) ==
    IF ~rentables[rentable].is_active THEN FALSE
    ELSE ~\E i \in 1 .. Len(rentals) : rentals[i].status = "active"

\* Rentable.is_available()
is_available(rentable) ==
    IF ~rentables[rentable].is_active THEN FALSE
    ELSE RentalsWithStatus(rentable, "active") = {}

\* Rental.mark_as_returned()
mark_as_returned(i) ==
    /\ rentals' = [rentals EXCEPT ![i].status = "returned", ![i].returned_at = Some(toolsNow)]
    /\ lastCost' = Null
    /\ UNCHANGED <<rentables, toolsNow, notToolsVars>>

\* math.ceil that rounds down
math_ceilFloor(num, den) == num \div den

\* math.ceil(float(num / den)) for den > 0. The Decimal quotient (28 digits)
\* and its float are within 1e-15 of num / den, and a quotient of whole
\* seconds that is not a whole number is at least 1 / den away from one, so
\* the ceiling is that of the exact quotient.
math_ceil(num, den) == 0 - ((0 - num) \div den)

\* Rental.calculate_rental_cost(), cost_per_period in cents
calculate_rental_cost(rental) ==
    LET duration == IF ~IsNull(rental.returned_at)
                    THEN Val(rental.returned_at) - rental.checked_out_at
                    ELSE toolsNow - rental.checked_out_at
        period == rentables[rental.rentable].rental_period
        \* hours = duration / 3600; periods = hours, hours / 24 or hours / 168
        seconds_per_period == IF period = "hours" THEN SecondsPerHour
                              ELSE IF period = "days" THEN SecondsPerHour * HoursPerDay
                              ELSE SecondsPerHour * HoursPerWeek
        periods_rounded == math_ceil(duration, seconds_per_period)
    IN  periods_rounded * rentables[rental.rentable].cost_per_period

\* A call of calculate_rental_cost on the rental with pk i
CalculateRentalCost(i) ==
    /\ lastCost' = Some([rental |-> i, cost |-> calculate_rental_cost(rentals[i])])
    /\ UNCHANGED <<rentables, rentals, toolsNow, notToolsVars>>

\* Rental.objects.create(rentable=...): checked_out_at and status take their
\* defaults, timezone.now and ACTIVE.
CreateRental(rentable) ==
    /\ Len(rentals) < MaxRentals
    /\ rentals' = Append(rentals, [rentable |-> rentable, checked_out_at |-> toolsNow,
                                   returned_at |-> Null, status |-> "active"])
    /\ lastCost' = Null
    /\ UNCHANGED <<rentables, toolsNow, notToolsVars>>

\* tools/admin.py: RentalAdmin saves a rental with another status
SaveRental(i, status) ==
    /\ rentals[i].status # status
    /\ rentals' = [rentals EXCEPT ![i].status = status]
    /\ lastCost' = Null
    /\ UNCHANGED <<rentables, toolsNow, notToolsVars>>

\* tools/admin.py: RentableAdmin saves a rentable with is_active changed
SaveRentable(rentable) ==
    /\ rentables' = [rentables EXCEPT ![rentable].is_active = ~@]
    /\ lastCost' = Null
    /\ UNCHANGED <<rentals, toolsNow, notToolsVars>>

----------------------------------------------------------------------------
(* Idle values of the parts a specification does not exercise. *)

LeaseIdle ==
    /\ leases = << >>
    /\ today = 1
    /\ activeEval = Null
    /\ activeQuery = Null

AdapterIdle ==
    /\ ADMIN_DOMAINS = << >>
    /\ accounts = << >>
    /\ lastLogin = Null

PushIdle ==
    /\ subscriptions = << >>
    /\ lastResponse = Null

SettingIdle ==
    /\ settingRows = << >>
    /\ cache = << >>
    /\ lastGet = Null

FixtureIdle ==
    /\ csvRows = << >>
    /\ generated = Null

AdminIdle ==
    /\ installed = << >>
    /\ registry = << >>
    /\ lastRegisterAll = Null

ToolsIdle ==
    /\ rentables = << >>
    /\ rentals = << >>
    /\ toolsNow = 0
    /\ lastCost = Null

SharesIdle ==
    /\ shareOrder = << >>
    /\ shareResult = Null

RaceIdle ==
    /\ getCalls = << >>
    /\ setCall = Null
    /\ setDone = << >>

SiteIdle ==
    /\ AdapterIdle
    /\ PushIdle
    /\ SettingIdle
    /\ FixtureIdle
    /\ AdminIdle
    /\ ToolsIdle
    /\ SharesIdle
    /\ RaceIdle

PayoutIdle ==
    /\ payouts = << >>
    /\ lastReport = Null

BillIdle ==
    /\ apiKey = FALSE
    /\ now = 1
    /\ pc = "idle"
    /\ users_with_tabs = << >>
    /\ idx = 1
    /\ tab_orders = Null
    /\ invoice = Null
    /\ billed_count = 0
    /\ log = << >>
    /\ stdout = << >>
    /\ runLog = << >>
    /\ stripeItems = << >>
    /\ stripeInvoices = << >>

----------------------------------------------------------------------------
(* SpecPayout: one call of process_payout_report over any Order table of     *)
(* NumOrders rows.                                                          *)

OrderRows ==
    [user : {1}, description : {"Test order"}, amount : Amounts, status : OrderStatus,
     revenue_split : {Null} \cup {Some(s) : s \in SplitIds},
     issued_at : Dates, billed_at : {Null}]

InitPayout ==
    /\ orders \in [1 .. NumOrders -> OrderRows]
    /\ invoices = << >>
    /\ PayoutIdle
    /\ BillIdle
    /\ LeaseIdle
    /\ SiteIdle

NextPayout ==
    \E period_start \in Dates, period_end \in Dates :
        process_payout_report(period_start, period_end)

SpecPayout == InitPayout /\ [][NextPayout]_vars

----------------------------------------------------------------------------
(* Properties of the payout report, checked under SpecPayout. *)

RECURSIVE SumValues(_)
\* The sum of the third components of a finite set of triples.
SumValues(S) ==
    IF S = {} THEN 0
    ELSE LET x == CHOOSE y \in S : TRUE IN x[3] + SumValues(S \ {x})

\* An order counts for a period: paid, issued within it, and split.
Qualifies(o, from, to) ==
    o.status = PAID /\ from <= o.issued_at /\ o.issued_at <= to /\ o.revenue_split # Null

\* The entity a split entry names.
EntityOf(split) == <<Get(split, "entity_type", "org"), Get(split, "entity_id", 0)>>

\* The positions a split entry can have in its list.
EntryIndexes == UNION {DOMAIN RevenueSplits[s] : s \in SplitIds}

\* The (order, entry) pairs that name entity in the period.
Naming(entity, from, to) ==
    {<<i, j>> \in (1 .. Len(orders)) \X EntryIndexes :
        /\ Qualifies(orders[i], from, to)
        /\ j <= Len(RevenueSplits[Val(orders[i].revenue_split)])
        /\ EntityOf(RevenueSplits[Val(orders[i].revenue_split)][j]) = entity}

\* The entities named by the splits of the orders that count for the period.
NamedEntities(from, to) ==
    {EntityOf(RevenueSplits[Val(orders[i].revenue_split)][j]) :
        <<i, j>> \in {<<i, j>> \in (1 .. Len(orders)) \X EntryIndexes :
                        /\ Qualifies(orders[i], from, to)
                        /\ j <= Len(RevenueSplits[Val(orders[i].revenue_split)])}}

Product(i, j) ==
    orders[i].amount * Get(RevenueSplits[Val(orders[i].revenue_split)][j], "percentage", 0)

\* The sum of floor(amount * percentage / 100) over the pairs naming entity.
FloorSum(entity, from, to) ==
    SumValues({<<p[1], p[2], Product(p[1], p[2]) \div 100>> : p \in Naming(entity, from, to)})

\* The same sum with each quotient rounded toward zero.
TowardZeroSum(entity, from, to) ==
    SumValues({<<p[1], p[2],
                 IF Product(p[1], p[2]) >= 0 THEN Product(p[1], p[2]) \div 100
                 ELSE 0 - ((0 - Product(p[1], p[2])) \div 100)>> : p \in Naming(entity, from, to)})

\* C1 as stated: the amount of each Payout a report creates is the sum, over
\* the matching orders and their split entries naming the payout's entity, of
\* floor(order.amount * percentage / 100).
C1_AmountIsFloorSum ==
    ~IsNull(lastReport) =>
        LET rep == Val(lastReport) IN
        \A i \in 1 .. Len(rep.created) :
            rep.created[i].amount =
                FloorSum(<<rep.created[i].payee_type, rep.created[i].payee_id>>,
                         rep.period_start, rep.period_end)

\* C1 amended: the amount of each Payout a report creates is the sum, over the
\* matching orders and their split entries naming the payout's entity, of
\* order.amount * percentage / 100 rounded toward zero (the floor when the
\* product is not negative).
C1_AmountIsTowardZeroSum ==
    ~IsNull(lastReport) =>
        LET rep == Val(lastReport) IN
        \A i \in 1 .. Len(rep.created) :
            rep.created[i].amount =
                TowardZeroSum(<<rep.created[i].payee_type, rep.created[i].payee_id>>,
                              rep.period_start, rep.period_end)

\* A report created a payout summed from two entries, one of them with a
\* negative product that 100 does not divide.
C1_Witness ==
    /\ ~IsNull(lastReport)
    /\ \E i \in 1 .. Len(Val(lastReport).created) :
         LET r == Val(lastReport).created[i]
             n == Naming(<<r.payee_type, r.payee_id>>,
                         Val(lastReport).period_start, Val(lastReport).period_end)
         IN  /\ Cardinality(n) >= 2
             /\ \E p \in n : Product(p[1], p[2]) < 0 /\ Product(p[1], p[2]) % 100 # 0
             /\ \E p \in n : Product(p[1], p[2]) > 0 /\ Product(p[1], p[2]) % 100 # 0

\* C2: one call creates exactly one Payout row for each distinct entity in the
\* splits of the matching orders; each row is stored, PENDING, and carries the
\* period of the call.
C2_OneRowPerEntity ==
    ~IsNull(lastReport) =>
        LET rep == Val(lastReport)
            created == rep.created
        IN  /\ {<<created[i].payee_type, created[i].payee_id>> : i \in 1 .. Len(created)}
                    = NamedEntities(rep.period_start, rep.period_end)
            /\ Len(created) = Cardinality(NamedEntities(rep.period_start, rep.period_end))
            /\ \A i \in 1 .. Len(created) :
                    /\ created[i].status = PENDING
                    /\ created[i].period_start = rep.period_start
                    /\ created[i].period_end = rep.period_end
                    /\ created[i].id \in 1 .. Len(payouts)
                    /\ payouts[created[i].id] = created[i]
            /\ \A i, j \in 1 .. Len(created) : created[i].id = created[j].id => i = j

\* A report over a period of more than one day created several rows.
C2_Witness ==
    /\ ~IsNull(lastReport)
    /\ Len(Val(lastReport).created) >= 3
    /\ Val(lastReport).period_start < Val(lastReport).period_end

\* C3: an order contributes to a report only if it is PAID, issued within
\* [period_start, period_end] and has a revenue split: every created row names
\* an entity of such an order, and when no order qualifies the call creates no
\* Payout and returns the empty list.
C3_OnlyQualifyingOrdersContribute ==
    [][lastReport' # lastReport =>
        LET rep == Val(lastReport') IN
        /\ \A i \in 1 .. Len(rep.created) :
                <<rep.created[i].payee_type, rep.created[i].payee_id>>
                    \in NamedEntities(rep.period_start, rep.period_end)
        /\ (\A i \in 1 .. Len(orders) :
                ~Qualifies(orders[i], rep.period_start, rep.period_end))
                => rep.created = << >> /\ payouts' = payouts]_vars

\* A report returned the empty list although the table holds a split order that
\* is unpaid within the period and a paid split order outside it.
C3_Witness ==
    /\ ~IsNull(lastReport)
    /\ Val(lastReport).created = << >>
    /\ \E i, j \in 1 .. Len(orders) :
        /\ orders[i].status # PAID /\ orders[i].revenue_split # Null
        /\ orders[i].issued_at = Val(lastReport).period_start
        /\ orders[j].status = PAID /\ orders[j].revenue_split # Null
        /\ orders[j].issued_at > Val(lastReport).period_end

\* C8 as stated: no stored Payout has a payee_type other than 'user' or 'guild'.
C8_PayeeIsUserOrGuild ==
    \A i \in 1 .. Len(payouts) : payouts[i].payee_type \in PayeeType

----------------------------------------------------------------------------
(* SpecLease: reads of Lease.is_active over any Lease table of NumLeases rows. *)

\* start_date is NOT NULL in the table; end_date is nullable.
LeaseRows == [start_date : {Some(d) : d \in Days}, end_date : {Null} \cup {Some(d) : d \in Days}]

InitLease ==
    /\ leases \in [1 .. NumLeases -> LeaseRows]
    /\ today = 1
    /\ activeEval = Null
    /\ activeQuery = Null
    /\ orders = << >>
    /\ invoices = << >>
    /\ PayoutIdle
    /\ BillIdle
    /\ SiteIdle

NextLease ==
    \/ \E pk \in 1 .. NumLeases : ReadIsActive(pk)
    \/ \E as_of \in {Null} \cup {Some(d) : d \in Days} : ReadActive(as_of)
    \/ NextDay

SpecLease == InitLease /\ [][NextLease]_vars

\* C10: Lease.is_active is true exactly when start_date <= today and end_date
\* is null or end_date >= today, both boundaries inclusive.
C10_IsActiveIffWithinDates ==
    ~IsNull(activeEval) =>
        LET e == Val(activeEval)
            l == leases[e.lease]
        IN  e.value <=> /\ Val(l.start_date) <= e.today
                        /\ (l.end_date = Null \/ Val(l.end_date) >= e.today)

\* A lease that started earlier was read on its end date and is active.
C10_Witness ==
    /\ ~IsNull(activeEval)
    /\ Val(activeEval).value
    /\ leases[Val(activeEval).lease].end_date = Some(Val(activeEval).today)
    /\ Val(leases[Val(activeEval).lease].start_date) < Val(activeEval).today

\* C11: Lease.objects.active(as_of) returns exactly the leases with
\* start_date <= as_of and end_date null or end_date >= as_of, where as_of is
\* today's date when it is omitted.
C11_ActiveReturnsLeasesWithinDates ==
    ~IsNull(activeQuery) =>
        LET q == Val(activeQuery)
            date == IF q.as_of = Null THEN q.today ELSE q.as_of[1]
        IN  q.result = {pk \in 1 .. Len(leases) :
                            /\ leases[pk].start_date[1] <= date
                            /\ \/ leases[pk].end_date = Null
                               \/ leases[pk].end_date[1] >= date}

\* active(as_of) was asked for a date other than today, and returned an ongoing
\* lease without an end date while leaving out a lease that is active today
\* but had not started on as_of.
C11_Witness ==
    /\ ~IsNull(activeQuery)
    /\ ~IsNull(Val(activeQuery).as_of)
    /\ Val(Val(activeQuery).as_of) # Val(activeQuery).today
    /\ \E pk \in Val(activeQuery).result : leases[pk].end_date = Null
    /\ \E pk \in 1 .. Len(leases) :
          /\ pk \notin Val(activeQuery).result
          /\ is_active(leases[pk], Val(activeQuery).today)

----------------------------------------------------------------------------
(* SpecBilling: bill_tabs, invoked up to MaxRuns times, while users place    *)
(* orders, another invocation bills tabs, and time passes.                  *)

InitBilling ==
    /\ orders = << >>
    /\ invoices = << >>
    /\ PayoutIdle
    /\ apiKey \in BOOLEAN
    /\ now = 1
    /\ pc = "idle"
    /\ users_with_tabs = << >>
    /\ idx = 1
    /\ tab_orders = Null
    /\ invoice = Null
    /\ billed_count = 0
    /\ log = << >>
    /\ stdout = << >>
    /\ runLog = << >>
    /\ stripeItems = << >>
    /\ stripeInvoices = << >>
    /\ LeaseIdle
    /\ SiteIdle

NextBilling ==
    \/ StartRun
    \/ FetchUsers
    \/ CheckTabOrders
    \/ CreateLocalInvoice
    \/ \E ok \in 0 .. MaxOrders + 3 : CreateStripeInvoice(ok)
    \/ ApplyBilling
    \/ ReportFailure
    \/ FinishRun
    \/ \E user \in Users, item \in Catalogue : PlaceOrder(user, item)
    \/ \E user \in Users : ExternalBill(user)
    \/ Tick

SpecBilling == InitBilling /\ [][NextBilling]_vars

----------------------------------------------------------------------------
(* Properties of invoice creation and bill_tabs, checked under SpecBilling. *)

\* The call of create_invoice_for_user returns in this step.
InvoiceCallReturns == pc = "invoice" /\ pc' = "result"

\* The r-th invocation of bill_tabs has ended.
RunEnded(r) == r < Len(runLog) \/ (r = Len(runLog) /\ pc = "idle")

\* C4 as stated: when a Stripe call fails while the invoice of a user is being
\* created, a local Invoice for that user is still produced.
C4_StripeErrorFallsBackToLocalInvoice ==
    (pc = "result" /\ log = <<STRIPE_ERROR>>) =>
        /\ ~IsNull(invoice)
        /\ invoices[Val(invoice)].user = CurrentUser
        /\ invoices[Val(invoice)].stripe_invoice_id = Null

\* C4 amended: invoice creation falls back to a local-only invoice when no
\* Stripe key is configured; when a key is configured and a Stripe call fails,
\* create_invoice_for_user logs the error, returns None and stores no Invoice.
C4_LocalInvoiceOnlyWithoutKey ==
    [][InvoiceCallReturns =>
        /\ log' = <<STRIPE_ERROR>> => (IsNull(invoice') /\ invoices' = invoices)
        /\ ~apiKey => /\ ~IsNull(invoice')
                      /\ Len(invoices') = Len(invoices) + 1
                      /\ invoices'[Val(invoice')].user = CurrentUser
                      /\ invoices'[Val(invoice')].stripe_invoice_id = Null]_vars

\* A Stripe call failed after an invoice item had been created, and the call
\* returned None.
C4_Witness ==
    /\ pc = "result"
    /\ log = <<STRIPE_ERROR>>
    /\ IsNull(invoice)
    /\ stripeItems # << >>

SecondRunFindsNothing ==
    /\ runLog[2].invoices = << >>
    /\ stdout[2] = <<Message("No outstanding tabs to bill", 0, 0, 0)>>
    /\ \A pk \in runLog[1].on_tab_at_start : orders[pk].status = BILLED

\* Two invocations have ended and no order was added since the first started.
TwoRunsNoNewOrders ==
    /\ Len(runLog) >= 2
    /\ RunEnded(2)
    /\ Len(orders) = runLog[1].orders_at_start

\* The r-th invocation reported a failed invoice creation.
ReportedFailure(r) == \E i \in 1 .. Len(stdout[r]) : stdout[r][i].msg = "Failed to bill"

C6_BilledWithTimestamp ==
    \A r \in 1 .. Len(runLog) :
        RunEnded(r) =>
            \A n \in 1 .. Len(runLog[r].invoices), pk \in runLog[r].on_tab_at_start :
                orders[pk].user = invoices[runLog[r].invoices[n]].user =>
                    /\ orders[pk].status = BILLED
                    /\ ~IsNull(orders[pk].billed_at)
                    /\ Val(orders[pk].billed_at) >= runLog[r].started_at

\* An invocation that started after the clock had advanced has ended, having
\* invoiced a user with two orders on the tab, one of them issued earlier.
C6_Witness ==
    /\ Len(runLog) = 1
    /\ RunEnded(1)
    /\ runLog[1].started_at > 1
    /\ Len(runLog[1].invoices) = 1
    /\ Cardinality(runLog[1].on_tab_at_start) = 2
    /\ \A pk \in runLog[1].on_tab_at_start :
        /\ orders[pk].user = invoices[runLog[1].invoices[1]].user
        /\ orders[pk].status = BILLED
    /\ \E pk \in runLog[1].on_tab_at_start : orders[pk].issued_at < runLog[1].started_at

\* C9: when the turn of a user comes and none of the user's orders is ON_TAB any
\* more, the command moves on without creating an invoice or counting the user,
\* and the total it reports is the number of invoices it created.
C9_SkipsUserAlreadyBilled ==
    [][/\ (/\ pc = "loop"
           /\ idx <= Len(users_with_tabs)
           /\ (pc' # pc \/ idx' # idx)
           /\ OnTab(users_with_tabs[idx]) = {})
          => /\ pc' = "loop"
             /\ idx' = idx + 1
             /\ invoices' = invoices
             /\ billed_count' = billed_count
             /\ runLog' = runLog
             /\ stdout' = stdout
       /\ (pc = "loop" /\ pc' = "idle")
          => stdout'[Len(stdout')][Len(stdout'[Len(stdout')])] =
                Message("Billed users total", 0, Len(runLog[Len(runLog)].invoices), 0)]_vars

\* The loop has passed the only user of its list without an invoice, a count or
\* a failure message: the user's orders were billed after the list was fetched.
C9_Witness ==
    /\ pc = "loop"
    /\ Len(users_with_tabs) = 1
    /\ idx = 2
    /\ billed_count = 0
    /\ runLog[Len(runLog)].invoices = << >>
    /\ stdout[Len(stdout)] = << >>

----------------------------------------------------------------------------
(* SpecAdapter: social logins of new and of saved users, for any acceptable  *)
(* ADMIN_DOMAINS environment value and any User table of NumAccounts rows.   *)

\* Values of the ADMIN_DOMAINS environment variable ("" when it is not set).
EnvValues ==
    { << >>,
      <<" ", " ">>,
      <<"a", ".", "i", "o">>,
      <<"A", ".", "i", "o">>,
      <<" ", "a", ".", "i", "o", " ", ",", "B", ".", "I", "O">>,
      <<"a", ".", "i", "o", ",">>,
      <<"u", "@", "a", ".", "i", "o">>,
      <<"a", "i", "o">> }

\* Email addresses of users.
Emails ==
    { << >>,
      <<"u", "a", ".", "i", "o">>,
      <<"u", "@", "a", ".", "i", "o">>,
      <<"U", "@", "A", ".", "I", "O">>,
      <<"u", "@", "b", ".", "i", "o">>,
      <<"u", "@", "x", ".", "a", ".", "i", "o">>,
      <<"u", "@", "c", ".", "i", "o">>,
      <<"u", "@", "v", "@", "a", ".", "i", "o">>,
      <<"a", ".", "i", "o", "@">> }

AccountRows == [email : Emails, is_staff : BOOLEAN, is_superuser : BOOLEAN]

InitAdapter ==
    /\ \E raw \in EnvValues :
          /\ ~IsNull(ParseAdminDomains(raw))
          /\ ADMIN_DOMAINS = Val(ParseAdminDomains(raw))
    /\ accounts \in [1 .. NumAccounts -> AccountRows]
    /\ lastLogin = Null
    /\ orders = << >>
    /\ invoices = << >>
    /\ PayoutIdle
    /\ BillIdle
    /\ LeaseIdle
    /\ PushIdle
    /\ SettingIdle
    /\ FixtureIdle
    /\ AdminIdle
    /\ ToolsIdle
    /\ SharesIdle
    /\ RaceIdle

NextAdapter ==
    \/ \E email \in Emails : save_user(email)
    \/ \E pk \in 1 .. Len(accounts) : pre_social_login(pk)
    \/ \E email \in Emails : pre_social_loginUnsaved(email)

SpecAdapter == InitAdapter /\ [][NextAdapter]_vars

\* The part of an email address after its last "@" (nothing without an "@").
EmailDomain(email) ==
    IF \E i \in 1 .. Len(email) : email[i] = "@" THEN AfterLast(email, "@") ELSE << >>

\* Two strings are equal when the case of their letters is ignored.
SameIgnoringCase(a, b) ==
    /\ Len(a) = Len(b)
    /\ \A i \in 1 .. Len(a) : LowerChar(a[i]) = LowerChar(b[i])

\* The domain of the email address is one of the ADMIN_DOMAINS entries.
DomainListed(email) ==
    /\ \E i \in 1 .. Len(email) : email[i] = "@"
    /\ \E i \in 1 .. Len(ADMIN_DOMAINS) : SameIgnoringCase(EmailDomain(email), ADMIN_DOMAINS[i])

\* The hook that ran last acted on a saved user: save_user, or pre_social_login
\* of a user with a primary key.
HookOnSavedUser == ~IsNull(lastLogin) /\ ~IsNull(Val(lastLogin).pk)

\* C12: after save_user for a new user or pre_social_login for a saved user,
\* a user whose email domain equals an ADMIN_DOMAINS entry, case ignored, has
\* is_staff = True and is_superuser = True.
C12_ListedDomainBecomesAdmin ==
    HookOnSavedUser =>
        LET user == accounts[Val(Val(lastLogin).pk)]
        IN  DomainListed(user.email) => user.is_staff /\ user.is_superuser

\* pre_social_login promoted a saved user whose email spells the listed
\* domain in upper case.
C12_Witness ==
    /\ HookOnSavedUser
    /\ Val(lastLogin).hook = "pre_social_login"
    /\ Val(lastLogin).saved
    /\ ~Val(lastLogin).before.is_staff
    /\ LET user == accounts[Val(Val(lastLogin).pk)]
       IN  /\ user.is_staff /\ user.is_superuser
           /\ EmailDomain(user.email) \notin {ADMIN_DOMAINS[i] : i \in 1 .. Len(ADMIN_DOMAINS)}
           /\ DomainListed(user.email)

\* C13: a user whose email domain is not one of the ADMIN_DOMAINS entries (a
\* subdomain of one, no email, no "@", no ADMIN_DOMAINS) is not modified and
\* not saved by a hook: no stored row of such a user changes, and the hook
\* that ran on such a user left is_staff and is_superuser as they were.
C13_UnlistedDomainIsLeftAlone ==
    [][ /\ \A pk \in 1 .. Len(accounts) :
              ~DomainListed(accounts[pk].email) => accounts'[pk] = accounts[pk]
        /\ (lastLogin' # Null /\ ~DomainListed(lastLogin'[1].before.email)) =>
              /\ ~lastLogin'[1].saved
              /\ lastLogin'[1].pk # Null => accounts'[lastLogin'[1].pk[1]] = lastLogin'[1].before
      ]_vars

\* With ADMIN_DOMAINS listing a domain, pre_social_login ran on a saved user
\* of a subdomain of it who is staff but not superuser, and left the user so.
C13_Witness ==
    /\ HookOnSavedUser
    /\ Val(lastLogin).hook = "pre_social_login"
    /\ LET user == accounts[Val(Val(lastLogin).pk)]
       IN  /\ \E i \in 1 .. Len(ADMIN_DOMAINS) :
                 /\ EmailDomain(user.email) # ADMIN_DOMAINS[i]
                 /\ EndsWith(EmailDomain(user.email), ADMIN_DOMAINS[i])
           /\ user.is_staff
           /\ ~user.is_superuser
           /\ ~Val(lastLogin).saved

----------------------------------------------------------------------------
(* SpecPush: subscribe and unsubscribe requests of logged-in users, in any   *)
(* order, starting with no subscription.                                    *)

\* The keys a browser sends: its first ones, and updated ones.
Keys == {1, 2}

\* The values a request can give a field: the key absent, or a string.
FieldValues(strings) == {Null, Some(EmptyString)} \cup {Some(v) : v \in strings}

\* A JSON object as a function of the keys it has.
JsonObject(endpoint, p256dh, auth) ==
    [k \in {f \in {"endpoint", "p256dh", "auth"} :
                \/ f = "endpoint" /\ endpoint # Null
                \/ f = "p256dh" /\ p256dh # Null
                \/ f = "auth" /\ auth # Null} |->
        IF k = "endpoint" THEN endpoint ELSE IF k = "p256dh" THEN p256dh ELSE auth]

\* Request bodies: one that is not JSON, and JSON objects.
NotJson == [valid |-> FALSE, data |-> << >>]

\* The p256dh and auth of a request: an empty p256dh, no auth, or a key pair.
KeyPairs ==
    {<<Some(EmptyString), Some(1)>>, <<Some(1), Null>>} \cup {<<Some(k), Some(k)>> : k \in Keys}

SubscribeRequests ==
    {NotJson} \cup
    {[valid |-> TRUE, data |-> JsonObject(endpoint, pair[1], pair[2])] :
        endpoint \in FieldValues(Endpoints), pair \in KeyPairs}

UnsubscribeRequests ==
    {NotJson} \cup
    {[valid |-> TRUE, data |-> JsonObject(endpoint, Null, Null)] : endpoint \in FieldValues(Endpoints)}

InitPush ==
    /\ subscriptions = << >>
    /\ lastResponse = Null
    /\ orders = << >>
    /\ invoices = << >>
    /\ PayoutIdle
    /\ BillIdle
    /\ LeaseIdle
    /\ AdapterIdle
    /\ SettingIdle
    /\ FixtureIdle
    /\ AdminIdle
    /\ ToolsIdle
    /\ SharesIdle
    /\ RaceIdle

NextPush ==
    \/ \E user \in Subscribers, request \in SubscribeRequests : subscribe(user, request)
    \/ \E user \in Subscribers, request \in UnsubscribeRequests : unsubscribe(user, request)

SpecPush == InitPush /\ [][NextPush]_vars

\* The last answer, when it is the success of the given view.
Succeeded(view) ==
    /\ lastResponse # Null
    /\ lastResponse[1].view = view
    /\ lastResponse[1].status = 200

\* C14: an unsubscribe request of a user deletes no subscription of another
\* user, whatever endpoint it names: every row owned by someone else before
\* the request is still stored after it.
C14_UnsubscribeKeepsOthersSubscriptions ==
    [][ (lastResponse' # Null /\ lastResponse'[1].view = "unsubscribe") =>
            \A i \in 1 .. Len(subscriptions) :
                subscriptions[i].user # lastResponse'[1].user =>
                    \E j \in 1 .. Len(subscriptions') : subscriptions'[j] = subscriptions[i]
      ]_vars

\* A user unsubscribed, successfully, an endpoint for which they had no row
\* while another user's subscription with that endpoint is stored.
C14_Witness ==
    /\ Succeeded("unsubscribe")
    /\ lastResponse[1].applied[1].found = 0
    /\ \E i \in 1 .. Len(subscriptions) :
          /\ Some(subscriptions[i].endpoint) = lastResponse[1].applied[1].data["endpoint"]
          /\ subscriptions[i].user # lastResponse[1].user

\* C15: there is never more than one PushSubscription per endpoint, and a
\* subscribe request whose endpoint is already stored leaves the number of
\* rows as it was and gives the row of that endpoint the request's p256dh and auth.
C15_OneSubscriptionPerEndpoint ==
    /\ [](\A e \in Endpoints : Cardinality(WithEndpoint(e)) <= 1)
    /\ [][ IF lastResponse' # Null /\ lastResponse'[1].view = "subscribe" /\ lastResponse'[1].status = 200
           THEN LET data == lastResponse'[1].applied[1].data
                IN  WithEndpoint(data["endpoint"][1]) # {} =>
                        /\ Len(subscriptions') = Len(subscriptions)
                        /\ \A i \in 1 .. Len(subscriptions') :
                              subscriptions'[i].endpoint = data["endpoint"][1] =>
                                  /\ subscriptions'[i].p256dh = data["p256dh"][1]
                                  /\ subscriptions'[i].auth = data["auth"][1]
           ELSE TRUE
         ]_vars

\* A subscribe request found its endpoint stored and the table holds one row,
\* with the keys of that request, while another endpoint is stored as well.
C15_Witness ==
    /\ Succeeded("subscribe")
    /\ lastResponse[1].applied[1].found = 1
    /\ Len(subscriptions) = 2
    /\ \E i \in 1 .. Len(subscriptions) :
          /\ Some(subscriptions[i].endpoint) = lastResponse[1].applied[1].data["endpoint"]
          /\ Some(subscriptions[i].p256dh) = lastResponse[1].applied[1].data["p256dh"]
          /\ subscriptions[i].p256dh = 2

\* C16 as stated: a subscribe or unsubscribe request whose body is not valid
\* JSON is answered with 400 and the error "Invalid JSON", and changes no
\* stored subscription.
C16_InvalidJsonIsAnswered400 ==
    [][ (lastResponse' # Null /\ ~lastResponse'[1].valid) =>
            /\ lastResponse'[1].status = 400
            /\ lastResponse'[1].body = "Invalid JSON"
            /\ subscriptions' = subscriptions
      ]_vars

----------------------------------------------------------------------------
(* SpecSetting: reads and writes of settings in any order, starting with an *)
(* empty table and an empty cache.                                          *)

InitSetting ==
    /\ settingRows = [key \in SettingKeys |-> Null]
    /\ cache = [key \in SettingKeys |-> Null]
    /\ lastGet = Null
    /\ orders = << >>
    /\ invoices = << >>
    /\ PayoutIdle
    /\ BillIdle
    /\ LeaseIdle
    /\ AdapterIdle
    /\ PushIdle
    /\ FixtureIdle
    /\ AdminIdle
    /\ ToolsIdle
    /\ SharesIdle
    /\ RaceIdle

NextSetting ==
    \/ \E key \in SettingKeys, default \in SettingValues : Setting_get(key, default)
    \/ \E key \in SettingKeys, value \in SettingValues : Setting_set(key, value)
    \/ \E key \in SettingKeys, value \in SettingValues : UpdateSettingRow(key, value)
    \/ DeleteSettingRows
    \/ \E key \in SettingKeys : ExpireCache(key)

SpecSetting == InitSetting /\ [][NextSetting]_vars

\* C17 as stated: after any writes (Setting.set or direct updates of the row)
\* and reads, Setting.get(key, default) returns the value stored in the row
\* with that key, and default exactly when there is no such row. lastGet is
\* the read made since the last write, so the row is as the read found it.
C17_GetReturnsStoredValue ==
    lastGet # Null =>
        LET read == lastGet[1]
        IN  IF settingRows[read.key] # Null
            THEN read.result = settingRows[read.key][1]
            ELSE read.result = read.default

----------------------------------------------------------------------------
(* The fixture generator: one run of generate_fixture over a CSV. *)

\* Space ids: an ordinary studio, the battery storage, a facility space, a
\* PLM sub-unit and a guild space.
RowSpaceIds == {"A1", BATTERY_STORAGE_SPACE_ID, "A24", "A2c", "A28"}
RowLabels == {"Open", "Studio"}
RowMembers == {"X", "Open", "PLM", "Ann"}
RowPrices == {Null, Some(300)}

\* ParsedRow, the fields the classification and the leases read
ParsedRows ==
    [space_id : RowSpaceIds, label : RowLabels, member_raw : RowMembers,
     full_price : RowPrices, actual_paid : {Null}]

CsvFiles == UNION {[1 .. n -> ParsedRows] : n \in 0 .. MaxRows}

InitFixture ==
    /\ csvRows \in CsvFiles
    /\ generated = Null
    /\ orders = << >>
    /\ invoices = << >>
    /\ PayoutIdle
    /\ BillIdle
    /\ LeaseIdle
    /\ AdapterIdle
    /\ PushIdle
    /\ SettingIdle
    /\ AdminIdle
    /\ ToolsIdle
    /\ SharesIdle
    /\ RaceIdle

NextFixture == generate_fixture

SpecFixture == InitFixture /\ [][NextFixture]_vars

\* The fixture and the accumulator of a finished run.
Fixture == Val(generated).fixture
Acc == Val(generated).acc

\* The positions of the entries of one model in the fixture.
EntriesOf(model) == {j \in 1 .. Len(Fixture) : Fixture[j].model = model}

ModelRank(model) ==
    CASE model = "membership.membershipplan" -> 1
      [] model = "membership.guild" -> 2
      [] model = "membership.member" -> 3
      [] model = "membership.space" -> 4
      [] model = "membership.lease" -> 5

\* The model a lease's content_type names.
OwnerModel(content_type) == IF content_type[2] = "guild" THEN "membership.guild" ELSE "membership.member"

\* C18: every lease entry's space is the integer pk of a space entry with the
\* space id the lease was created for; that space entry, the guild or member
\* the lease belongs to and the plan of every member come earlier in the
\* output, which is ordered plan, guilds, members, spaces, leases.
C18_LeaseSpaceIsPkOfItsSpaceEntry ==
    ~IsNull(generated) =>
        /\ \A j \in EntriesOf("membership.lease") :
              /\ Fixture[j].fields.space \in Nat
              /\ \E k \in 1 .. (j - 1) :
                    /\ Fixture[k].model = "membership.space"
                    /\ Fixture[k].pk = Fixture[j].fields.space
                    /\ Fixture[k].fields.space_id = Acc.leases[Fixture[j].pk].space
              /\ \E k \in 1 .. (j - 1) :
                    /\ Fixture[k].model = OwnerModel(Fixture[j].fields.content_type)
                    /\ Fixture[k].pk = Fixture[j].fields.object_id
        /\ \A j \in EntriesOf("membership.member") :
              \E k \in 1 .. (j - 1) :
                  /\ Fixture[k].model = "membership.membershipplan"
                  /\ Fixture[k].pk = Fixture[j].fields.membership_plan
        /\ \A j, k \in 1 .. Len(Fixture) :
              j < k => ModelRank(Fixture[j].model) <= ModelRank(Fixture[k].model)

\* A run with a guild lease and a member lease on two spaces.
C18_Witness ==
    /\ ~IsNull(generated)
    /\ \E j, k \in EntriesOf("membership.lease") :
          /\ Fixture[j].fields.content_type[2] = "guild"
          /\ Fixture[k].fields.content_type[2] = "member"
          /\ Fixture[j].fields.space # Fixture[k].fields.space

\* A row describing a vacant space.
Vacant(row) == (row.label = "Open" /\ row.member_raw = "X") \/ row.member_raw = "Open"

\* The space ids _handle_non_tenant_row classifies before it looks at vacancy.
ClassifiedFirst == {BATTERY_STORAGE_SPACE_ID} \cup FACILITY_SPACES \cup PLM_SUB_UNITS

\* The fixture's space entry of row i: every row appends exactly one space.
SpaceEntryOfRow(i) == Fixture[CHOOSE j \in EntriesOf("membership.space") : Fixture[j].pk = i]

\* C19 as stated: a vacant row yields a space entry with status 'available',
\* and no lease entry refers to that space entry.
C19_VacantRowIsAvailableAndUnleased ==
    ~IsNull(generated) =>
        \A i \in 1 .. Len(csvRows) :
            Vacant(csvRows[i]) =>
                /\ SpaceEntryOfRow(i).fields.status = "available"
                /\ \A j \in EntriesOf("membership.lease") : Fixture[j].fields.space # i

\* C19, amended: a vacant row yields a space entry with status 'available'
\* unless its space id is the battery storage, a facility space or a PLM
\* sub-unit, which are not rentable and never 'available'; vacant rows create
\* no leases (there is at most one lease per row that is not vacant); and a
\* lease entry refers to the space entry of a vacant row only when the lease
\* was created by an earlier row with the same space id that is not vacant.
C19_VacantRowCreatesNoLease ==
    ~IsNull(generated) =>
        /\ \A i \in 1 .. Len(csvRows) :
              Vacant(csvRows[i]) =>
                  /\ csvRows[i].space_id \notin ClassifiedFirst
                        => SpaceEntryOfRow(i).fields.status = "available"
                  /\ csvRows[i].space_id \in ClassifiedFirst
                        => /\ SpaceEntryOfRow(i).fields.status \in {"maintenance", "occupied"}
                           /\ ~SpaceEntryOfRow(i).fields.is_rentable
                  /\ \A j \in EntriesOf("membership.lease") :
                        Fixture[j].fields.space = i
                            => \E k \in 1 .. (i - 1) :
                                  /\ ~Vacant(csvRows[k])
                                  /\ csvRows[k].space_id = csvRows[i].space_id
                                  /\ Acc.leases[Fixture[j].pk].space = csvRows[k].space_id
        /\ Cardinality(EntriesOf("membership.lease"))
              <= Cardinality({i \in 1 .. Len(csvRows) : ~Vacant(csvRows[i])})

\* A run over a tenant's row and a vacant row: the vacant space is available
\* and the only lease is the tenant's.
C19_Witness ==
    /\ ~IsNull(generated)
    /\ Len(csvRows) = 2
    /\ ~Vacant(csvRows[1])
    /\ Vacant(csvRows[2])
    /\ csvRows[1].space_id # csvRows[2].space_id
    /\ SpaceEntryOfRow(2).fields.status = "available"
    /\ Cardinality(EntriesOf("membership.lease")) = 1

----------------------------------------------------------------------------
(* The admin site: registrations by the apps and by register_all_models. *)

AppNames == {"membership", "core", "django.contrib.auth", "allauth.socialaccount"}
AdminClasses == {"ModelAdmin", create_model_admin(1)}

InitAdmin ==
    /\ installed \in [1 .. NumModels -> [app_name : AppNames, abstract : BOOLEAN]]
    /\ registry = [model \in 1 .. NumModels |-> Null]
    /\ lastRegisterAll = Null
    /\ orders = << >>
    /\ invoices = << >>
    /\ PayoutIdle
    /\ BillIdle
    /\ LeaseIdle
    /\ AdapterIdle
    /\ PushIdle
    /\ SettingIdle
    /\ FixtureIdle
    /\ ToolsIdle
    /\ SharesIdle
    /\ RaceIdle

NextAdmin ==
    \/ register_all_models
    \/ \E model \in Models, admin_class \in AdminClasses : site_register(model, admin_class)
    \/ \E hidden \in SUBSET Models : unregister_hidden_models(hidden)

SpecAdmin == InitAdmin /\ [][NextAdmin]_vars

\* The models register_all_models is to take care of.
Eligible(model) == installed[model].app_name \notin EXCLUDED_APPS /\ ~installed[model].abstract

\* The models the last register_all_models() registered.
NewlyRegistered ==
    {model \in Models : IsNull(Val(lastRegisterAll).before[model]) /\ ~IsNull(registry[model])}

\* C20: after register_all_models() every non-abstract model of an app that
\* is not excluded is registered; models of excluded apps and models that
\* were registered before are as they were; registered + skipped is the
\* number of installed models and registered is the number of models the
\* call registered.
C20_RegisterAllModelsRegistersTheRest ==
    ~IsNull(lastRegisterAll) =>
        /\ \A model \in Models : Eligible(model) => ~IsNull(registry[model])
        /\ \A model \in Models :
              (installed[model].app_name \in EXCLUDED_APPS \/ ~IsNull(Val(lastRegisterAll).before[model]))
                  => registry[model] = Val(lastRegisterAll).before[model]
        /\ Val(lastRegisterAll).registered_count + Val(lastRegisterAll).skipped_count = Len(installed)
        /\ Val(lastRegisterAll).registered_count = Cardinality(NewlyRegistered)

\* A call that registered one model and passed over a model its app had
\* registered with its own admin class.
C20_Witness ==
    /\ ~IsNull(lastRegisterAll)
    /\ Val(lastRegisterAll).registered_count = 1
    /\ Val(lastRegisterAll).skipped_count = 1
    /\ \E model \in Models :
          /\ Val(lastRegisterAll).before[model] = Some("ModelAdmin")
          /\ registry[model] = Some("ModelAdmin")

----------------------------------------------------------------------------------------------------------------------------------------------
(* SpecRental: rentals are created, returned and edited in the admin, and    *)
(* rentables are switched off and on. Availability does not read the clock,  *)
(* which stands still here.                                                  *)

Costs == {1000, 2500}

RentableRows == [is_active : {TRUE}, rental_period : RentalPeriod, cost_per_period : Costs]

\* The rentables are alike but for their rentals and their is_active.
InitRental ==
    /\ rentables \in {[rentable \in 1 .. NumRentables |-> row] : row \in RentableRows}
    /\ rentals = << >>
    /\ toolsNow = 0
    /\ lastCost = Null
    /\ orders = << >>
    /\ invoices = << >>
    /\ PayoutIdle
    /\ BillIdle
    /\ LeaseIdle
    /\ AdapterIdle
    /\ PushIdle
    /\ SettingIdle
    /\ FixtureIdle
    /\ AdminIdle
    /\ SharesIdle
    /\ RaceIdle

NextRental ==
    \/ \E rentable \in 1 .. NumRentables : CreateRental(rentable)
    \/ \E i \in 1 .. Len(rentals) : mark_as_returned(i)
    \/ \E i \in 1 .. Len(rentals), status \in RentalStatus : SaveRental(i, status)
    \/ \E rentable \in 1 .. NumRentables : SaveRentable(rentable)

SpecRental == InitRental /\ [][NextRental]_vars

\* The rentals of a rentable.
RentalsOf(rentable) == {i \in 1 .. Len(rentals) : rentals[i].rentable = rentable}

\* C21: is_available() is true exactly when the rentable is active and none
\* of its rentals has status ACTIVE; an active rentable whose rentals are all
\* returned is available.
C21_AvailableIffActiveWithoutActiveRental ==
    \A rentable \in DOMAIN rentables :
        /\ is_available(rentable)
              <=> /\ rentables[rentable].is_active
                  /\ \A i \in RentalsOf(rentable) : rentals[i].status # "active"
        /\ (/\ rentables[rentable].is_active
            /\ \A i \in RentalsOf(rentable) : rentals[i].status = "returned")
              => is_available(rentable)

\* A rentable is available again after its rental was returned, while the
\* other rentable is out.
C21_Witness ==
    \E rentable, other \in DOMAIN rentables :
        /\ rentable # other
        /\ is_available(rentable)
        /\ RentalsOf(rentable) # {}
        /\ \A i \in RentalsOf(rentable) : ~IsNull(rentals[i].returned_at)
        /\ RentalsOf(other) # {}
        /\ ~is_available(other)

----------------------------------------------------------------------------
(* SpecRentalCost: one rental, checked out at any moment, whose cost is      *)
(* calculated before and after it is returned while time passes.             *)

\* The moments the clock shows: one second before, at and one second after a
\* whole number of hours, days and weeks.
Times ==
    {t \in {k * p + d : k \in 0 .. MaxPeriods,
                        p \in {SecondsPerHour, SecondsPerHour * HoursPerDay,
                               SecondsPerHour * HoursPerWeek},
                        d \in {0 - 1, 0, 1}} : t >= 0}

\* Time passes.
TickTools ==
    /\ \E t \in Times : t > toolsNow /\ toolsNow' = t
    /\ lastCost' = Null
    /\ UNCHANGED <<rentables, rentals, notToolsVars>>

InitRentalCost ==
    /\ rentables \in [1 .. NumRentables -> RentableRows]
    /\ toolsNow \in Times
    /\ \E rentable \in 1 .. NumRentables :
          rentals = <<[rentable |-> rentable, checked_out_at |-> toolsNow,
                       returned_at |-> Null, status |-> "active"]>>
    /\ lastCost = Null
    /\ orders = << >>
    /\ invoices = << >>
    /\ PayoutIdle
    /\ BillIdle
    /\ LeaseIdle
    /\ AdapterIdle
    /\ PushIdle
    /\ SettingIdle
    /\ FixtureIdle
    /\ AdminIdle
    /\ SharesIdle
    /\ RaceIdle

NextRentalCost ==
    \/ \E i \in 1 .. Len(rentals) : mark_as_returned(i)
    \/ \E i \in 1 .. Len(rentals) : CalculateRentalCost(i)
    \/ TickTools

SpecRentalCost == InitRentalCost /\ [][NextRentalCost]_vars

\* The rental whose cost was calculated last, its rentable, the length of its
\* period and its duration, in seconds.
CostRental == rentals[Val(lastCost).rental]
CostRentable == rentables[CostRental.rentable]
CostPeriod ==
    CASE CostRentable.rental_period = "hours" -> 3600
      [] CostRentable.rental_period = "days" -> 24 * 3600
      [] CostRentable.rental_period = "weeks" -> 168 * 3600
CostDuration ==
    (IF IsNull(CostRental.returned_at) THEN toolsNow ELSE Val(CostRental.returned_at))
        - CostRental.checked_out_at

\* C22: the cost is cost_per_period times the least whole number of periods
\* that covers the duration from checked_out_at to returned_at (to the
\* current time for a rental not returned); a duration of exactly k periods
\* costs k periods.
C22_CostIsPeriodsRoundedUp ==
    ~IsNull(lastCost) =>
        /\ LET n == Val(lastCost).cost \div CostRentable.cost_per_period
           IN  /\ Val(lastCost).cost = n * CostRentable.cost_per_period
               /\ n * CostPeriod >= CostDuration
               /\ (n - 1) * CostPeriod < CostDuration
        /\ \A k \in 0 .. MaxPeriods :
              CostDuration = k * CostPeriod => Val(lastCost).cost = k * CostRentable.cost_per_period

\* The cost of a returned rental of one second more than a whole period: two
\* periods.
C22_Witness ==
    /\ ~IsNull(lastCost)
    /\ ~IsNull(CostRental.returned_at)
    /\ CostDuration = CostPeriod + 1
    /\ Val(lastCost).cost = 2 * CostRentable.cost_per_period

\* C30 as stated: a rentable with a rental that has not been returned, be its
\* status ACTIVE or OVERDUE, is not available.
C30_CheckedOutIsNeverAvailable ==
    \A rentable \in DOMAIN rentables :
        (\E i \in RentalsOf(rentable) : rentals[i].status # "returned")
            => ~is_available(rentable)

----------------------------------------------------------------------------
(* Properties of bill_tabs under concurrent orders and failing Stripe calls, *)
(* checked under SpecBilling.                                                *)

\* The command leaves the if/else that follows create_invoice_for_user.
ResultHandled == pc = "result" /\ pc' = "loop"

\* The orders a step marks BILLED.
MarkedBilled == {pk \in 1 .. Len(orders) : orders[pk].status = ON_TAB /\ orders'[pk].status = BILLED}

\* C23 as stated: the orders an invocation of bill_tabs marks BILLED for a
\* user are the line items of the invoice it created for that user, and their
\* amounts add up to its amount_due, whatever orders are placed meanwhile.
C23_BilledOrdersAreOnTheInvoice ==
    [][(ResultHandled /\ ~IsNull(invoice)) =>
        /\ Len(invoices[Val(invoice)].line_items) = Cardinality(MarkedBilled)
        /\ invoices[Val(invoice)].amount_due =
              SumValues({<<pk, pk, orders[pk].amount>> : pk \in MarkedBilled})]_vars

\* C24 as stated: with a Stripe key, no order is submitted to Stripe as an
\* invoice item twice, and every finalized Stripe invoice has a local Invoice
\* row.
C24_EachOrderSubmittedOnce ==
    apiKey =>
        /\ \A i, j \in 1 .. Len(stripeItems) :
              stripeItems[i].order = stripeItems[j].order => i = j
        /\ \A n \in 1 .. Len(stripeInvoices) :
              stripeInvoices[n].finalized =>
                  \E k \in 1 .. Len(invoices) :
                      invoices[k].stripe_invoice_id = Some(stripeInvoices[n].id)

\* C25: when create_invoice_for_user returns no invoice, neither the call nor
\* the command changes an order; the command writes "Failed to bill" for the
\* user; and the next invocation fetches every user who has an order ON_TAB.
C25_FailureLeavesOrdersOnTab ==
    [][/\ (InvoiceCallReturns /\ IsNull(invoice')) => orders' = orders
       /\ (ResultHandled /\ IsNull(invoice)) =>
             /\ orders' = orders
             /\ \A pk \in OnTab(CurrentUser) :
                   orders'[pk].status = ON_TAB /\ IsNull(orders'[pk].billed_at)
             /\ stdout'[Len(stdout')][Len(stdout'[Len(stdout')])] =
                   Message("Failed to bill", CurrentUser, 0, 0)
       /\ (pc = "fetch" /\ pc' = "loop") =>
             \A pk \in 1 .. Len(orders) :
                 orders[pk].status = ON_TAB =>
                     \E i \in 1 .. Len(users_with_tabs') : users_with_tabs'[i] = orders[pk].user]_vars

\* The first invocation failed to bill a user; the second invoiced an order
\* that was on the tab when the first started.
C25_Witness ==
    /\ Len(runLog) = 2
    /\ RunEnded(2)
    /\ ReportedFailure(1)
    /\ runLog[1].invoices = << >>
    /\ Len(runLog[2].invoices) = 1
    /\ \E pk \in runLog[1].on_tab_at_start \cap runLog[2].on_tab_at_start :
          /\ orders[pk].status = BILLED
          /\ orders[pk].user = invoices[runLog[2].invoices[1]].user

----------------------------------------------------------------------------
(* SpecPayoutRuns: process_payout_report called again and again, for any     *)
(* periods, over any Order table of NumOrders rows.                          *)

NextPayoutRuns ==
    \/ \E period_start \in Dates, period_end \in Dates :
          process_payout_report(period_start, period_end)
    \/ \E period_start \in Dates, period_end \in Dates :
          process_payout_reportAgain(period_start, period_end)

SpecPayoutRuns == InitPayout /\ [][NextPayoutRuns]_vars

\* The payees of an order: the keys its revenue split names.
PayeesOf(order) ==
    IF IsNull(order.revenue_split) THEN {}
    ELSE {<<Get(RevenueSplits[Val(order.revenue_split)][n], "entity_type", "org"),
            Get(RevenueSplits[Val(order.revenue_split)][n], "entity_id", 0)>> :
              n \in 1 .. Len(RevenueSplits[Val(order.revenue_split)])}

\* The orders a Payout row pays out.
PaidOutBy(row) ==
    {pk \in 1 .. Len(orders) :
        /\ Matches(orders[pk], row.period_start, row.period_end)
        /\ <<row.payee_type, row.payee_id>> \in PayeesOf(orders[pk])}

\* C26 as stated: however often the report is run, there is at most one
\* Payout per payee and period, and no order is paid out by two Payout rows.
C26_RerunCreatesNoFurtherPayouts ==
    \A i, j \in 1 .. Len(payouts) :
        i # j =>
            /\ <<payouts[i].payee_type, payouts[i].payee_id,
                 payouts[i].period_start, payouts[i].period_end>>
               # <<payouts[j].payee_type, payouts[j].payee_id,
                   payouts[j].period_start, payouts[j].period_end>>
            /\ payouts[i].payee_type = payouts[j].payee_type /\ payouts[i].payee_id = payouts[j].payee_id
                  => PaidOutBy(payouts[i]) \cap PaidOutBy(payouts[j]) = {}

----------------------------------------------------------------------------
(* SpecShares: the shares of one paid order, for any amount and any list of  *)
(* splits.                                                                   *)

\* Percentages of a split entry; Null is an entry without the key.
Percentages == {0 - 10, 0, 15, 30, 33, 50, 70, 100}

\* The n-th entry of a splits list: the payees alternate between two guilds.
SplitEntry(n, percentage) ==
    IF IsNull(percentage)
    THEN [entity_type |-> "guild", entity_id |-> 1 + (n % 2)]
    ELSE [entity_type |-> "guild", entity_id |-> 1 + (n % 2), percentage |-> Val(percentage)]

SplitLists ==
    UNION {{[n \in 1 .. len |-> SplitEntry(n, ps[n])] :
               ps \in [1 .. len -> {Null} \cup {Some(p) : p \in Percentages}]} : len \in 0 .. MaxSplits}

InitShares ==
    /\ shareOrder \in [amount : {0 - 5} \cup (0 .. MaxAmount), splits : SplitLists]
    /\ shareResult = Null
    /\ orders = << >>
    /\ invoices = << >>
    /\ PayoutIdle
    /\ BillIdle
    /\ LeaseIdle
    /\ AdapterIdle
    /\ PushIdle
    /\ SettingIdle
    /\ FixtureIdle
    /\ AdminIdle
    /\ ToolsIdle
    /\ RaceIdle

NextShares == AddSplitsOfOrder

SpecShares == InitShares /\ [][NextShares]_vars

\* The percentages of the splits of the order.
PercentagesOf(order) == [n \in 1 .. Len(order.splits) |-> Get(order.splits[n], "percentage", 0)]

\* C27: for an order with a non-negative amount whose percentages are
\* non-negative and add up to at most 100, every share is non-negative and
\* the shares add up to at most the amount.
C27_SharesWithinTheAmount ==
    (/\ ~IsNull(shareResult)
     /\ shareOrder.amount >= 0
     /\ \A n \in 1 .. Len(shareOrder.splits) : PercentagesOf(shareOrder)[n] >= 0
     /\ SumSeq(PercentagesOf(shareOrder)) <= 100)
        => /\ \A n \in 1 .. Len(shareOrder.splits) :
                 Share(shareOrder.amount, PercentagesOf(shareOrder)[n]) >= 0
           /\ \A i \in 1 .. Len(Val(shareResult)) : Val(shareResult)[i].amount >= 0
           /\ SumSeq([i \in 1 .. Len(Val(shareResult)) |-> Val(shareResult)[i].amount])
                 <= shareOrder.amount

\* Three splits of 33, 33 and 30 percent of an amount of 7: two payees get 4
\* of the 7 between them.
C27_Witness ==
    /\ ~IsNull(shareResult)
    /\ shareOrder.amount = 7
    /\ PercentagesOf(shareOrder) = <<33, 33, 30>>
    /\ Len(Val(shareResult)) = 2
    /\ SumSeq([i \in 1 .. Len(Val(shareResult)) |-> Val(shareResult)[i].amount]) = 6

----------------------------------------------------------------------------
(* SpecSettingRace: two requests calling Setting.get while a third calls    *)
(* Setting.set, on one key, statement by statement.                         *)

RaceKeys == {1}

InitSettingRace ==
    /\ settingRows = [key \in SettingKeys |-> Null]
    /\ cache = [key \in SettingKeys |-> Null]
    /\ lastGet = Null
    /\ getCalls = [g \in Getters |-> NoCall]
    /\ setCall = Null
    /\ setDone = [key \in SettingKeys |-> FALSE]
    /\ orders = << >>
    /\ invoices = << >>
    /\ PayoutIdle
    /\ BillIdle
    /\ LeaseIdle
    /\ AdapterIdle
    /\ PushIdle
    /\ FixtureIdle
    /\ AdminIdle
    /\ ToolsIdle
    /\ SharesIdle

NextSettingRace ==
    \/ \E g \in Getters, key \in RaceKeys, default \in SettingValues :
          Setting_get_cached(g, key, default)
    \/ \E g \in Getters : Setting_get_row(g)
    \/ \E g \in Getters : Setting_get_cache_set(g)
    \/ \E g \in Getters : Setting_get_return(g)
    \/ \E key \in RaceKeys, value \in SettingValues : Setting_set_update_or_create(key, value)
    \/ Setting_set_cache_delete
    \/ \E key \in RaceKeys : ExpireCacheDuringCalls(key)

SpecSettingRace == InitSettingRace /\ [][NextSettingRace]_vars

\* C28 as stated: a Setting.get(key) that started after a Setting.set of the
\* key had completed, with no Setting.set of the key started since, returns
\* the value that set stored, whatever other Setting.get calls ran
\* concurrently with the set.
C28_GetAfterSetReturnsTheNewValue ==
    \A g \in Getters :
        (getCalls[g].pc = "done" /\ getCalls[g].fresh)
            => getCalls[g].value = Val(settingRows[getCalls[g].key])

----------------------------------------------------------------------------
(* Properties of subscribe across users. *)

\* C29 as stated: a subscribe request of a user leaves every subscription
\* owned by another user as it was, with its owner and its keys.
C29_SubscribeKeepsOthersSubscriptions ==
    [][ (lastResponse' # Null /\ lastResponse'[1].view = "subscribe") =>
            \A i \in 1 .. Len(subscriptions) :
                subscriptions[i].user # lastResponse'[1].user =>
                    /\ i <= Len(subscriptions')
                    /\ subscriptions'[i] = subscriptions[i]
      ]_vars

====
